---------------------------- MODULE Spec2Model ----------------------------
(***************************************************************************)
(* LandIS Portal metadata exporter: the bundle assembler of db.py          *)
(* (fetch_metadata_bundle and the store gateway functions it calls) and    *)
(* the export driver of export_metadata.py (export_metadata_records).      *)
(*                                                                         *)
(* A run is one call of export_metadata_records.  The relational store,    *)
(* the configuration file, the dry-run flag and the credentials are the    *)
(* inputs of the run; they are fixed by Init and never change.             *)
(*                                                                         *)
(* The configuration loader of config_loader.py (load_configurations) and  *)
(* the document builder of xml_builder.py (build_metadata_tree and the     *)
(* _build_* functions it calls) are operators.  Spec is a run of the       *)
(* driver; BuilderSpec is a caller of build_metadata_tree alone, handing   *)
(* it one bundle and one BuildOptions from BuilderCases.                   *)
(*                                                                         *)
(* The quote cleanup utility of cleanup.py is a program of its own:        *)
(* CleanupSpec is one call of run_cleanup against the columns its targets  *)
(* name, and QuoteSpec is a caller of normalise_quotes alone.              *)
(***************************************************************************)
EXTENDS Integers, Sequences, FiniteSets, TLC

VARIABLES
    store,          \* the relational store the connection reads
    csv,            \* the configuration file given by configuration_path
    dry_run,        \* export_metadata_records' dry_run parameter
    credentials,    \* TRUE when ORACLE_USER, ORACLE_PASSWORD, ORACLE_DSN are set
    pc,             \* position of the run inside export_metadata_records
    error,          \* the exception that left export_metadata_records, or "none"
    configs,        \* list returned by load_configurations
    idx,            \* index in configs of the config the for loop is at (0: none yet)
    dir_created,    \* ensure_output_directory has run
    connected,      \* the with-block holds an open connection
    assembling,     \* fetch_metadata_bundle's local dict bundle while it runs
    source_citation_map, \* fetch_metadata_bundle's local source_citation_map
    bundle,         \* the bundle fetch_metadata_bundle returned to the driver
    tree,           \* the tree build_metadata_tree returned for the current config
    trace,          \* every call of a db.fetch_* function, in call order
    events,         \* the driver's steps: <<"assemble"|"build"|"write", metadata_id>>
    written_files,  \* export_metadata_records' written_files list
    options,        \* the BuildOptions build_metadata_tree works with
    today,          \* the calendar date date.today() returns
    built,          \* every call of build_metadata_tree so far, in call order
    cleanup_config, \* the JSON file at args.config of a cleanup run
    tables,         \* the columns as the cleanup connection's session sees them
    committed,      \* the columns as committed in the database
    fault,          \* which cursor.execute call raises DatabaseError (0: none)
    session,        \* statements executed and transaction calls made, in call order
    updates,        \* _apply_updates' list updates, what is left to execute
    total_updates,  \* run_cleanup's total_updates
    returned_total, \* the value run_cleanup returned
    raw_text,       \* a str normalise_quotes is called with
    normalised      \* what the calls of normalise_quotes made of it so far

vars == <<store, csv, dry_run, credentials, pc, error, configs, idx, dir_created,
          connected, assembling, source_citation_map, bundle, tree, trace, events,
          written_files, options, today, built, cleanup_config, tables, committed, fault,
          session, updates, total_updates, returned_total, raw_text, normalised>>

\* the state of the cleanup utility (cleanup.py)
cleaner == <<cleanup_config, tables, committed, fault, session, updates, total_updates,
             returned_total, raw_text, normalised>>

\* the locals of fetch_metadata_bundle
frame == <<assembling, source_citation_map>>

inputs == <<store, csv, dry_run, credentials, options, today>>

---------------------------------------------------------------------------
(* Bounds of the model                                                     *)

\* longest configuration file (data rows) of a driver run
MaxConfigs == 2
\* most METADATA_MAIN_SOURCE rows of one metadata record
MaxSources == 2

---------------------------------------------------------------------------
(* Values                                                                  *)

\* Python None / SQL NULL in a scalar column
NULL == "NULL"
\* Python None where a row (a dict) is expected
NoRow == [none |-> TRUE]
\* an empty dict
EmptyMap == << >>

MetadataIds == {"M1", "M2"}
GroupIds == {"G1"}
ContactIds == {"K1", "K2"}
SourceIds == {"S1", "S2"}
CitationIds == {"C1", "C2", "C3"}
\* the citation identifiers in ascending order, as sorted() compares them
CitationIdOrder == <<"C1", "C2", "C3">>

\* Python truthiness of a scalar column value (None and "" are falsy)
Truthy(value) == value # NULL /\ value # ""

SeqsUpTo(S, n) == UNION {[1..k -> S] : k \in 0..n}

Range(s) == {s[i] : i \in DOMAIN s}

---------------------------------------------------------------------------
(* Column values as the document builder sees them.  A text is a sequence  *)
(* of pieces, each either the blank " " or a run of non-blank characters;  *)
(* the empty sequence is the empty string.  A value carries its Python     *)
(* type and, for every type but None, the text str() gives for it.         *)

NoText == << >>

None == [type |-> "none", text |-> NoText]

\* a str with the given text
Str(text) == [type |-> "str", text |-> text]

\* a number (Decimal, int or float column); text is str(value)
Num(text) == [type |-> "num", text |-> text]

\* datetime.date: text is isoformat(), the calendar date
date(day) == [type |-> "date", text |-> <<day>>]

\* datetime.datetime: text is isoformat(), the calendar date, "T", the time of day
datetime(day, time) == [type |-> "datetime", text |-> <<day, "T", time>>]

\* value is None
IsNone(value) == value.type = "none"

\* bool(value): None, "" and the number 0 are false
truthy(value) ==
    CASE value.type = "none" -> FALSE
      [] value.type = "str" -> value.text # NoText
      [] value.type = "num" -> value.text # <<"0">>
      [] OTHER -> TRUE

\* isinstance(value, date); datetime is a subclass of date
isinstance_date(value) == value.type \in {"date", "datetime"}

isinstance_datetime(value) == value.type = "datetime"

\* value.date() of a datetime
date_of(value) == date(value.text[1])

\* value.isoformat() of a date or a datetime
isoformat(value) == Str(value.text)

\* str(value); str(datetime) separates date and time by a blank
str(value) ==
    CASE value.type = "none" -> <<"None">>
      [] value.type = "datetime" -> <<value.text[1], " ", value.text[3]>>
      [] OTHER -> value.text

\* text.strip(): leading and trailing blanks removed
strip(text) ==
    LET solid == {i \in DOMAIN text : text[i] # " "}
    IN  IF solid = {} THEN NoText
        ELSE LET first == CHOOSE i \in solid : \A j \in solid : i <= j
                 last == CHOOSE i \in solid : \A j \in solid : j <= i
             IN  SubSeq(text, first, last)

\* an identifier column as a value
IdValue(id) == IF id = NULL THEN None ELSE Str(<<id>>)

---------------------------------------------------------------------------
(* The relational store.  A store is a record of tables:                   *)
(*   metadata_main            [MetadataIds -> row or NoRow]                *)
(*   metadata_groups          [GroupIds    -> row or NoRow]                *)
(*   metadata_contacts        [ContactIds  -> row or NoRow]                *)
(*   metadata_citations       [CitationIds -> row or NoRow]                *)
(*   metadata_attributes      [MetadataIds -> rows in ATTRIBUTE_NO order]  *)
(*   metadata_keywords        [MetadataIds -> rows in KEYWORD_TYPE order]  *)
(*   metadata_main_source     [MetadataIds -> source ids in ms.ID order]   *)
(*   metadata_sources         [SourceIds   -> row]                         *)
(*   metadata_source_citation link rows in SOURCE_ID order                 *)
(* A row lists its key columns and those of its other columns that are    *)
(* not NULL; a column a row does not list is NULL in it.                   *)

MainRow(metadata_id, group_id, citation_id) ==
    [metadata_id |-> metadata_id, group_id |-> group_id, citation_id |-> citation_id]

GroupRow(group_id, contact_id, metadata_contact_id) ==
    [group_id |-> group_id, contact_id |-> contact_id,
     metadata_contact_id |-> metadata_contact_id]

ContactRow(contact_id) == [contact_id |-> contact_id]

CitationRow(citation_id) == [citation_id |-> citation_id]

SourceRow(source_id, citation_id) == [source_id |-> source_id, citation_id |-> citation_id]

LinkRow(source_id, citation_id) == [source_id |-> source_id, citation_id |-> citation_id]

AttributeRow(metadata_id, attribute_name) ==
    [metadata_id |-> metadata_id, attribute_name |-> Str(<<attribute_name>>)]

KeywordRow(metadata_id, keyword_type, keyword) ==
    [metadata_id |-> metadata_id, keyword_type |-> keyword_type, keyword |-> keyword]

\* row.get(column): the value of the column, None when it is NULL
Get(row, column) == IF column \in DOMAIN row THEN row[column] ELSE None

\* contact K1 has a record, K2 is referenced by groups but has none
ContactTable == [k \in ContactIds |-> IF k = "K1" THEN ContactRow(k) ELSE NoRow]

\* citations C1 and C2 have a record, C3 is referenced but has none
CitationTable == [c \in CitationIds |-> IF c = "C3" THEN NoRow ELSE CitationRow(c)]

AttributeTable ==
    [m \in MetadataIds |->
        IF m = "M1" THEN <<AttributeRow(m, "A1"), AttributeRow(m, "A2")>>
        ELSE << >>]

KeywordTable ==
    [m \in MetadataIds |->
        IF m = "M1" THEN <<KeywordRow(m, Str(<<"theme">>), Str(<<"soil">>))>>
        ELSE << >>]

\* the link rows a store may hold, in SOURCE_ID order; a link row always names
\* a citation (CITATION_ID is not NULL in the link table)
LinkTables ==
    { << >>,
      <<LinkRow("S1", "C1")>>,
      <<LinkRow("S2", "C3")>>,
      <<LinkRow("S1", "C1"), LinkRow("S2", "C3")>> }

MakeStore(main, groups, main_source, sources, links) ==
    [metadata_main |-> main,
     metadata_groups |-> groups,
     metadata_contacts |-> ContactTable,
     metadata_citations |-> CitationTable,
     metadata_attributes |-> AttributeTable,
     metadata_keywords |-> KeywordTable,
     metadata_main_source |-> main_source,
     metadata_sources |-> sources,
     metadata_source_citation |-> links]

---------------------------------------------------------------------------
(* Store gateway (db.py).  The connection is the store it reads.  The      *)
(* batched fetches return their mapping together with whether they        *)
(* executed a query.                                                       *)

\* dict(... for row in rows): the mapping from key to row of the rows found
RowsByKey(table, keys) ==
    [k \in {k2 \in keys : k2 \in DOMAIN table /\ table[k2] # NoRow} |-> table[k]]

fetch_main_record(connection, metadata_id) ==
    IF metadata_id \in DOMAIN connection.metadata_main
    THEN connection.metadata_main[metadata_id]
    ELSE NoRow

fetch_group(connection, group_id) ==
    IF group_id \in DOMAIN connection.metadata_groups
    THEN connection.metadata_groups[group_id]
    ELSE NoRow

fetch_citation(connection, citation_id) ==
    IF citation_id \in DOMAIN connection.metadata_citations
    THEN connection.metadata_citations[citation_id]
    ELSE NoRow

fetch_contacts_for_ids(connection, contact_ids) ==
    IF contact_ids = << >>
    THEN [rows |-> EmptyMap, executed |-> FALSE]
    ELSE [rows |-> RowsByKey(connection.metadata_contacts, Range(contact_ids)),
          executed |-> TRUE]

fetch_attributes(connection, metadata_id) ==
    connection.metadata_attributes[metadata_id]

fetch_keywords(connection, metadata_id) ==
    connection.metadata_keywords[metadata_id]

\* METADATA_MAIN_SOURCE joined to METADATA_SOURCES, ordered by ms.ID
fetch_sources(connection, metadata_id) ==
    LET ms == connection.metadata_main_source[metadata_id]
    IN  [i \in DOMAIN ms |-> connection.metadata_sources[ms[i]]]

\* grouped.setdefault(row["source_id"], []).append(row) over the rows found
fetch_source_citations(connection, source_ids) ==
    IF source_ids = << >>
    THEN [rows |-> EmptyMap, executed |-> FALSE]
    ELSE LET found == SelectSeq(connection.metadata_source_citation,
                                LAMBDA row : row.source_id \in Range(source_ids))
         IN  [rows |-> [s \in {found[i].source_id : i \in DOMAIN found} |->
                            SelectSeq(found, LAMBDA row : row.source_id = s)],
              executed |-> TRUE]

\* fetch_citations_for_ids without the early return of lines 380-381
fetch_citations_for_ids_unguarded(connection, citation_ids) ==
    [rows |-> RowsByKey(connection.metadata_citations, Range(citation_ids)),
     executed |-> TRUE]

fetch_citations_for_ids(connection, citation_ids) ==
    IF citation_ids = << >>
    THEN [rows |-> EmptyMap, executed |-> FALSE]
    ELSE [rows |-> RowsByKey(connection.metadata_citations, Range(citation_ids)),
          executed |-> TRUE]

---------------------------------------------------------------------------
(* Bundle assembler (db.fetch_metadata_bundle), one action per lookup step *)

\* the contact identifiers passed on as collected, duplicates and all
UniqueIdsKeepAll(ids) == ids

\* list(dict.fromkeys(ids)): duplicates dropped, first-seen order kept
UniqueIds(ids) ==
    LET Keep[i \in 0..Len(ids)] ==
            IF i = 0 THEN << >>
            ELSE IF ids[i] \in Range(Keep[i - 1]) THEN Keep[i - 1]
                 ELSE Append(Keep[i - 1], ids[i])
    IN  Keep[Len(ids)]

\* sorted(ids) of a set of citation identifiers
SortedIds(ids) == SelectSeq(CitationIdOrder, LAMBDA c : c \in ids)

\* contact_ids, lines 447-452
ContactIdsOf(group) ==
    IF group = NoRow THEN << >>
    ELSE (IF group.contact_id # NULL THEN <<group.contact_id>> ELSE << >>)
         \o (IF group.metadata_contact_id # NULL THEN <<group.metadata_contact_id>>
             ELSE << >>)

\* contact_lookup.get(contact_id), lines 461-465
ContactOf(contact_lookup, contact_id) ==
    IF contact_id \in DOMAIN contact_lookup THEN contact_lookup[contact_id] ELSE NoRow

\* linked_citation_ids from the sources' own citation_id alone, the loop over
\* the link rows (lines 486-488) left out
LinkedCitationIdsOwnOnly(sources, link_map) ==
    {sources[i].citation_id : i \in {j \in DOMAIN sources : Truthy(sources[j].citation_id)}}

\* linked_citation_ids with the link rows of every source in the store, not
\* only those fetched for this record's sources
LinkedCitationIdsAllLinks(sources, link_map) ==
    {sources[i].citation_id : i \in {j \in DOMAIN sources : Truthy(sources[j].citation_id)}}
    \cup
    {store.metadata_source_citation[i].citation_id :
        i \in DOMAIN store.metadata_source_citation}

\* linked_citation_ids, lines 481-488
LinkedCitationIds(sources, link_map) ==
    {sources[i].citation_id : i \in {j \in DOMAIN sources : Truthy(sources[j].citation_id)}}
    \cup
    UNION {{link_map[s][i].citation_id : i \in DOMAIN link_map[s]} : s \in DOMAIN link_map}

\* one db.fetch_* call as the trace records it
Call(fn, arg, executed) == [call |-> idx, fn |-> fn, arg |-> arg, executed |-> executed]

\* raise: the exception leaves fetch_metadata_bundle and export_metadata_records,
\* the with-block closes the connection on the way out
Raise(exception) ==
    /\ error' = exception
    /\ pc' = "raised"
    /\ connected' = FALSE

---------------------------------------------------------------------------
(* Inputs of a run                                                         *)

\* a data row of the configuration file: metadata_id as written ("" when the
\* cell is blank), the two flags as _parse_bool reads them
CsvRows(ids) ==
    [metadata_id : ids, include_sources : BOOLEAN, include_keywords : BOOLEAN]

\* the lines of a configuration file: the header line naming the columns, a
\* comment line (its first non-blank character is '#'), a data line
HeaderLine ==
    [kind |-> "header", metadata_id |-> "metadata_id", include_sources |-> TRUE,
     include_keywords |-> TRUE]

CommentLine ==
    [kind |-> "comment", metadata_id |-> "#", include_sources |-> TRUE,
     include_keywords |-> TRUE]

DataLine(row) == [kind |-> "data"] @@ row

\* a file that is missing, or holds a header line (or none) and the data rows
CsvFile(exists, header, rows) ==
    [exists |-> exists,
     lines |-> (IF header THEN <<HeaderLine>> ELSE << >>)
               \o [i \in DOMAIN rows |-> DataLine(rows[i])]]

\* the file with a comment line put in after its first p lines
WithComment(file, p) ==
    [file EXCEPT !.lines = SubSeq(@, 1, p) \o <<CommentLine>> \o SubSeq(@, p + 1, Len(@))]

\* stores for one assembly in depth: every shape of M1's group, contacts,
\* sources and link rows
AssemblyStores ==
    { MakeStore([m \in MetadataIds |-> IF m = "M1" THEN MainRow(m, g, c) ELSE NoRow],
                [x \in GroupIds |-> grp],
                [m \in MetadataIds |-> IF m = "M1" THEN ms ELSE << >>],
                [x \in SourceIds |-> IF x = "S1" THEN SourceRow(x, sc) ELSE SourceRow(x, "C2")],
                links) :
        g \in {NULL, "G1"}, c \in {NULL, "C1"},
        grp \in {NoRow} \cup {GroupRow("G1", k1, k2) : k1, k2 \in {NULL} \cup ContactIds},
        ms \in SeqsUpTo(SourceIds, MaxSources),
        sc \in {NULL, "C1", "C3"},
        links \in LinkTables }

\* stores for the driver: each identifier with or without a primary record
DriverStores ==
    { MakeStore([m \in MetadataIds |->
                    IF m \notin present THEN NoRow
                    ELSE IF m = "M1" THEN MainRow(m, "G1", "C1") ELSE MainRow(m, NULL, NULL)],
                [x \in GroupIds |-> GroupRow(x, "K1", "K2")],
                [m \in MetadataIds |-> IF m = "M1" THEN <<"S1", "S2">> ELSE << >>],
                [x \in SourceIds |-> IF x = "S1" THEN SourceRow(x, "C1") ELSE SourceRow(x, NULL)],
                <<LinkRow("S1", "C1"), LinkRow("S2", "C3")>>) :
        present \in SUBSET MetadataIds }

\* the files of the loader runs: every driver file with one comment line
\* somewhere in it, and the files whose data rows come without a header line
LoaderFiles ==
    UNION {{WithComment(CsvFile(TRUE, header, rows), p) :
                p \in 0..Len(CsvFile(TRUE, header, rows).lines)} :
            header \in BOOLEAN,
            rows \in SeqsUpTo(CsvRows({""} \cup MetadataIds), MaxConfigs)}
    \cup {CsvFile(TRUE, FALSE, rows) :
            rows \in SeqsUpTo(CsvRows({""} \cup MetadataIds), MaxConfigs)}

\* the options of a build; the code lists, language and scope keep their defaults
BuildOptions(date_stamp, contact_name, contact_organisation, contact_email) ==
    [language_code |-> Str(<<"eng">>),
     character_set |-> Str(<<"utf8">>),
     hierarchy_level |-> Str(<<"dataset">>),
     date_stamp |-> date_stamp,
     contact_name |-> contact_name,
     contact_organisation |-> contact_organisation,
     contact_email |-> contact_email]

\* export_metadata_records calls build_metadata_tree(bundle): BuildOptions()
DefaultOptions == BuildOptions(None, None, None, None)

\* no cleanup run and no call of normalise_quotes is under way
IdleCleaner ==
    /\ cleanup_config = [exists |-> FALSE, targets |-> << >>]
    /\ tables = << >>
    /\ committed = << >>
    /\ fault = 0
    /\ session = << >>
    /\ updates = << >>
    /\ total_updates = 0
    /\ returned_total = NULL
    /\ raw_text = << >>
    /\ normalised = << >>

InitAssembly ==
    /\ store \in AssemblyStores
    /\ csv \in {CsvFile(TRUE, TRUE, <<row>>) : row \in CsvRows({"M1"})}
    /\ dry_run = FALSE
    /\ credentials = TRUE

InitDriver ==
    /\ store \in DriverStores
    /\ csv \in {CsvFile(FALSE, FALSE, << >>), CsvFile(TRUE, FALSE, << >>)}
               \cup {CsvFile(TRUE, TRUE, rows) :
                        rows \in SeqsUpTo(CsvRows({""} \cup MetadataIds), MaxConfigs)}
    /\ dry_run \in BOOLEAN
    /\ credentials \in BOOLEAN

InitLoader ==
    /\ store \in {s \in DriverStores : \A m \in MetadataIds : s.metadata_main[m] # NoRow}
    /\ csv \in LoaderFiles
    /\ dry_run = FALSE
    /\ credentials = TRUE

Init ==
    /\ InitAssembly \/ InitDriver \/ InitLoader
    /\ options = DefaultOptions
    /\ today = date("2025-03-01")
    /\ pc = "load"
    /\ error = "none"
    /\ configs = << >>
    /\ idx = 0
    /\ dir_created = FALSE
    /\ connected = FALSE
    /\ assembling = NoRow
    /\ source_citation_map = EmptyMap
    /\ bundle = NoRow
    /\ tree = NoRow
    /\ trace = << >>
    /\ events = << >>
    /\ written_files = << >>
    /\ built = << >>
    /\ IdleCleaner

---------------------------------------------------------------------------
(* Configuration loader (config_loader.load_configurations)                *)

MetadataExportConfig(metadata_id, include_sources, include_keywords) ==
    [metadata_id |-> metadata_id, include_sources |-> include_sources,
     include_keywords |-> include_keywords]

\* the lines handed to csv.DictReader with the comment lines kept in
non_comment_lines_unfiltered(file) == file.lines

\* lines 69-71
non_comment_lines(file) ==
    SelectSeq(file.lines, LAMBDA line : line.kind # "comment")

\* the rows csv.DictReader yields: the first line it is handed names the columns,
\* and a row has a metadata_id cell only under a column of that name
reader_rows(file) ==
    LET handed == non_comment_lines(file)
    IN  [i \in 1..(Len(handed) - 1) |->
            IF handed[1].metadata_id = "metadata_id" THEN handed[i + 1]
            ELSE [handed[i + 1] EXCEPT !.metadata_id = ""]]

\* the exception load_configurations raises for the file, or "none"
load_configurations_error(file) ==
    IF ~file.exists THEN "FileNotFoundError"
    ELSE IF non_comment_lines(file) = << >> THEN "ValueError"
    ELSE IF \E i \in DOMAIN reader_rows(file) : reader_rows(file)[i].metadata_id = ""
         THEN "ValueError"
    ELSE IF reader_rows(file) = << >> THEN "ValueError"
    ELSE "none"

\* the list load_configurations returns when it raises nothing
load_configurations(file) ==
    [i \in DOMAIN reader_rows(file) |->
        MetadataExportConfig(reader_rows(file)[i].metadata_id,
                             reader_rows(file)[i].include_sources,
                             reader_rows(file)[i].include_keywords)]

---------------------------------------------------------------------------
(* Document builder (xml_builder.py).  An element is its qualified tag,    *)
(* its codeList and codeListValue attributes (codeList NULL when it has    *)
(* none), its text (NoText when it has none or the empty string: the two   *)
(* serialise alike) and the sequence of its children.  A sub-builder is    *)
(* the sequence of elements it appends to its parent.                      *)

\* ET.SubElement(parent, tag) with the children later appended to it
SubElement(tag, children) ==
    [tag |-> tag, codeList |-> NULL, codeListValue |-> NoText, text |-> NoText,
     children |-> children]

\* an element whose .text is set
TextElement(tag, text) ==
    [tag |-> tag, codeList |-> NULL, codeListValue |-> NoText, text |-> text,
     children |-> << >>]

\* an element with .set("codeList", ...), .set("codeListValue", ...) and .text
CodeElement(tag, codeList, codeListValue, text) ==
    [tag |-> tag, codeList |-> codeList, codeListValue |-> codeListValue, text |-> text,
     children |-> << >>]

_character_string(text) ==
    TextElement("gco:CharacterString", IF IsNone(text) THEN NoText ELSE text.text)

_optional_element(tag, text) ==
    IF IsNone(text) \/ text = Str(NoText) THEN << >>
    ELSE <<SubElement(tag, <<_character_string(text)>>)>>

_format_date(value) ==
    IF IsNone(value) THEN None
    ELSE IF isinstance_date(value) THEN isoformat(value)
    ELSE IF isinstance_datetime(value) THEN isoformat(date_of(value))
    ELSE LET text == strip(str(value))
         IN  IF text = NoText THEN None ELSE Str(text)

_build_file_identifier(b) ==
    <<SubElement("gmd:fileIdentifier", <<_character_string(IdValue(b.metadata_id))>>)>>

_build_language(language_code) ==
    <<SubElement("gmd:language",
        <<CodeElement("gmd:LanguageCode", "ML_gmxCodelists.xml#LanguageCode",
                      language_code.text, language_code.text)>>)>>

_build_character_set(character_set) ==
    <<SubElement("gmd:characterSet",
        <<CodeElement("gmd:MD_CharacterSetCode", "codeList.xml#MD_CharacterSetCode",
                      character_set.text, NoText)>>)>>

_build_hierarchy_level(hierarchy_level) ==
    <<SubElement("gmd:hierarchyLevel",
        <<CodeElement("gmd:MD_ScopeCode", "ML_gmxCodelists.xml#MD_ScopeCode",
                      hierarchy_level.text, hierarchy_level.text)>>)>>

_build_contact(b, opts) ==
    <<SubElement("gmd:contact",
        <<SubElement("gmd:CI_ResponsibleParty",
            (IF truthy(opts.contact_name)
             THEN <<SubElement("gmd:individualName", <<_character_string(opts.contact_name)>>)>>
             ELSE << >>)
            \o (IF truthy(opts.contact_organisation)
                THEN <<SubElement("gmd:organisationName",
                                  <<_character_string(opts.contact_organisation)>>)>>
                ELSE << >>)
            \o (IF truthy(opts.contact_email)
                THEN <<SubElement("gmd:contactInfo",
                        <<SubElement("gmd:CI_Contact",
                            <<SubElement("gmd:address",
                                <<SubElement("gmd:CI_Address",
                                    <<SubElement("gmd:electronicMailAddress",
                                        <<_character_string(opts.contact_email)>>)>>)>>)>>)>>)>>
                ELSE << >>)
            \o <<SubElement("gmd:role",
                    <<CodeElement("gmd:CI_RoleCode", "codeList.xml#CI_RoleCode",
                                  <<"pointOfContact">>, <<"pointOfContact">>)>>)>>)>>)>>

\* the date stamp taken from the clock whatever the override
_build_date_stamp_from_clock(date_stamp) ==
    <<SubElement("gmd:dateStamp", <<TextElement("gco:Date", isoformat(today).text)>>)>>

_build_date_stamp(date_stamp) ==
    LET date_value == IF IsNone(date_stamp) THEN today ELSE date_stamp
    IN  <<SubElement("gmd:dateStamp", <<TextElement("gco:Date", isoformat(date_value).text)>>)>>

_build_reference_system ==
    <<SubElement("gmd:referenceSystemInfo",
        <<SubElement("gmd:MD_ReferenceSystem",
            <<SubElement("gmd:referenceSystemIdentifier",
                <<SubElement("gmd:RS_Identifier",
                    <<SubElement("gmd:code",
                        <<_character_string(Str(<<"British", " ", "National", " ", "Grid">>))
                        >>)>>)>>)>>)>>)>>

\* lines 305-320: title, and for a citation its alternate title and date
citation_children(main, citation) ==
    <<SubElement("gmd:title", <<_character_string(Get(main, "title"))>>)>>
    \o (IF citation = NoRow THEN << >>
        ELSE _optional_element("gmd:alternateTitle", Get(citation, "citation_title"))
             \o <<SubElement("gmd:date",
                    <<SubElement("gmd:CI_Date",
                        (LET publication_date == _format_date(Get(citation, "citation_pubdate"))
                         IN  IF truthy(publication_date)
                             THEN <<SubElement("gmd:date",
                                        <<_character_string(publication_date)>>)>>
                             ELSE << >>)
                        \o <<SubElement("gmd:dateType",
                                <<CodeElement("gmd:CI_DateTypeCode",
                                              "codeList.xml#CI_DateTypeCode",
                                              <<"publication">>, <<"publication">>)>>)>>)>>)>>)

\* the purpose lines with the elif of line 328 written as a second if
purpose_children_both(main, group) ==
    (IF group # NoRow /\ truthy(Get(group, "purpose"))
     THEN <<SubElement("gmd:purpose", <<_character_string(Get(group, "purpose"))>>)>>
     ELSE << >>)
    \o (IF truthy(Get(main, "supplemental_information"))
        THEN <<SubElement("gmd:purpose",
                <<_character_string(Get(main, "supplemental_information"))>>)>>
        ELSE << >>)

\* lines 325-330
purpose_children(main, group) ==
    IF group # NoRow /\ truthy(Get(group, "purpose"))
    THEN <<SubElement("gmd:purpose", <<_character_string(Get(group, "purpose"))>>)>>
    ELSE IF truthy(Get(main, "supplemental_information"))
    THEN <<SubElement("gmd:purpose",
            <<_character_string(Get(main, "supplemental_information"))>>)>>
    ELSE << >>

\* lines 332-338
status_children(main) ==
    LET status_value == Get(main, "status_progress")
    IN  IF truthy(status_value)
        THEN <<SubElement("gmd:status",
                <<CodeElement("gmd:MD_ProgressCode", "codeList.xml#MD_ProgressCode",
                              status_value.text, status_value.text)>>)>>
        ELSE << >>

\* line 370: (keyword.get("keyword_type") or "").strip()
keyword_type_of(keyword) ==
    strip(IF truthy(Get(keyword, "keyword_type")) THEN Get(keyword, "keyword_type").text
          ELSE NoText)

\* the grouping key with the strip() of line 370 left out
keyword_type_unstripped(keyword) ==
    IF truthy(Get(keyword, "keyword_type")) THEN Get(keyword, "keyword_type").text ELSE NoText

\* the grouping with the unstripped key
_group_keywords_by_type_unstripped(keywords) ==
    LET order == UniqueIds([i \in DOMAIN keywords |-> keyword_type_unstripped(keywords[i])])
    IN  [g \in DOMAIN order |->
            [keyword_type |-> order[g],
             keywords |-> SelectSeq(keywords, LAMBDA keyword :
                                        keyword_type_unstripped(keyword) = order[g])]]

\* grouped.setdefault(keyword_type, []).append(keyword): the dict as the
\* sequence of its items, in insertion order
_group_keywords_by_type(keywords) ==
    LET order == UniqueIds([i \in DOMAIN keywords |-> keyword_type_of(keywords[i])])
    IN  [g \in DOMAIN order |->
            [keyword_type |-> order[g],
             keywords |-> SelectSeq(keywords, LAMBDA keyword :
                                        keyword_type_of(keyword) = order[g])]]

\* the keyword blocks with the `if keyword_group` of line 347 left out
keyword_children_always_typed(keywords) ==
    LET grouped == _group_keywords_by_type(keywords)
    IN  [g \in DOMAIN grouped |->
            SubElement("gmd:descriptiveKeywords",
                <<SubElement("gmd:MD_Keywords",
                    [k \in DOMAIN grouped[g].keywords |->
                        SubElement("gmd:keyword",
                            <<_character_string(grouped[g].keywords[k].keyword)>>)]
                    \o <<SubElement("gmd:type",
                            <<CodeElement("gmd:MD_KeywordTypeCode",
                                          "codeList.xml#MD_KeywordTypeCode",
                                          grouped[g].keyword_type,
                                          grouped[g].keyword_type)>>)>>)>>)]

\* lines 340-352
keyword_children(keywords) ==
    LET grouped == _group_keywords_by_type(keywords)
    IN  [g \in DOMAIN grouped |->
            SubElement("gmd:descriptiveKeywords",
                <<SubElement("gmd:MD_Keywords",
                    [k \in DOMAIN grouped[g].keywords |->
                        SubElement("gmd:keyword",
                            <<_character_string(grouped[g].keywords[k].keyword)>>)]
                    \o (IF grouped[g].keyword_type # NoText
                        THEN <<SubElement("gmd:type",
                                <<CodeElement("gmd:MD_KeywordTypeCode",
                                              "codeList.xml#MD_KeywordTypeCode",
                                              grouped[g].keyword_type,
                                              grouped[g].keyword_type)>>)>>
                        ELSE << >>))>>)]

_build_constraints(group) ==
    IF group = NoRow THEN << >>
    ELSE (IF truthy(Get(group, "use_constraint"))
          THEN <<SubElement("gmd:resourceConstraints",
                    <<SubElement("gmd:MD_Constraints",
                        <<SubElement("gmd:useLimitation",
                            <<_character_string(Get(group, "use_constraint"))>>)>>)>>)>>
          ELSE << >>)
         \o (IF truthy(Get(group, "access_constraint"))
             THEN <<SubElement("gmd:resourceConstraints",
                    <<SubElement("gmd:MD_LegalConstraints",
                        <<SubElement("gmd:accessConstraints",
                            <<CodeElement("gmd:MD_RestrictionCode",
                                          "ML_gmxCodelists.xml#MD_RestrictionCode",
                                          Get(group, "access_constraint").text,
                                          Get(group, "access_constraint").text)>>)>>)>>)>>
             ELSE << >>)

_build_spatial_representation(main) ==
    LET spatial_type == Get(main, "metadata_facing")
    IN  IF ~truthy(spatial_type) THEN << >>
        ELSE <<SubElement("gmd:spatialRepresentationType",
                <<CodeElement("gmd:MD_SpatialRepresentationTypeCode",
                              "codeList.xml#MD_SpatialRepresentationTypeCode",
                              spatial_type.text, spatial_type.text)>>)>>

\* lines 449-454: the coordinates in the order they are written out
bounding_names(main) ==
    <<[tag |-> "gmd:westBoundLongitude", value |-> Get(main, "west_bounding_coordinate")],
      [tag |-> "gmd:eastBoundLongitude", value |-> Get(main, "east_bounding_coordinate")],
      [tag |-> "gmd:southBoundLatitude", value |-> Get(main, "south_bounding_coordinate")],
      [tag |-> "gmd:northBoundLatitude", value |-> Get(main, "north_bounding_coordinate")]>>

\* the coordinate loop with `if not value` in place of `if value is None`
bounding_box_children_truthy(main) ==
    LET names == SelectSeq(bounding_names(main), LAMBDA name : truthy(name.value))
    IN  [i \in DOMAIN names |->
            SubElement(names[i].tag, <<TextElement("gco:Decimal", str(names[i].value))>>)]

\* lines 455-460
bounding_box_children(main) ==
    LET names == SelectSeq(bounding_names(main), LAMBDA name : ~IsNone(name.value))
    IN  [i \in DOMAIN names |->
            SubElement(names[i].tag, <<TextElement("gco:Decimal", str(names[i].value))>>)]

\* lines 462-473
temporal_children(main) ==
    LET start == _format_date(Get(main, "temporal_date_from"))
        end == _format_date(Get(main, "temporal_date_to"))
    IN  IF truthy(start) \/ truthy(end)
        THEN <<SubElement("gmd:temporalElement",
                <<SubElement("gmd:EX_TemporalExtent",
                    <<SubElement("gml:TimePeriod",
                        (IF truthy(start)
                         THEN <<TextElement("gml:beginPosition", start.text)>> ELSE << >>)
                        \o (IF truthy(end)
                            THEN <<TextElement("gml:endPosition", end.text)>>
                            ELSE << >>))>>)>>)>>
        ELSE << >>

\* the extent with the early return of lines 441-442 left out: the temporal
\* sub-block is written whatever the coordinates
_build_extent_without_return(main) ==
    IF (\A i \in DOMAIN bounding_names(main) : IsNone(bounding_names(main)[i].value))
       /\ temporal_children(main) = << >>
    THEN << >>
    ELSE <<SubElement("gmd:extent",
            <<SubElement("gmd:EX_Extent",
                <<SubElement("gmd:geographicElement",
                    <<SubElement("gmd:EX_GeographicBoundingBox",
                                 bounding_box_children(main))>>)>>
                \o temporal_children(main))>>)>>

_build_extent(main) ==
    IF \A i \in DOMAIN bounding_names(main) : IsNone(bounding_names(main)[i].value)
    THEN << >>
    ELSE <<SubElement("gmd:extent",
            <<SubElement("gmd:EX_Extent",
                <<SubElement("gmd:geographicElement",
                    <<SubElement("gmd:EX_GeographicBoundingBox",
                                 bounding_box_children(main))>>)>>
                \o temporal_children(main))>>)>>

_build_identification_info(b) ==
    <<SubElement("gmd:identificationInfo",
        <<SubElement("gmd:MD_DataIdentification",
            <<SubElement("gmd:citation",
                <<SubElement("gmd:CI_Citation", citation_children(b.main, b.citation))>>)>>
            \o <<SubElement("gmd:abstract", <<_character_string(Get(b.main, "abstract"))>>)>>
            \o purpose_children(b.main, b.group)
            \o status_children(b.main)
            \o keyword_children(b.keywords)
            \o _build_constraints(b.group)
            \o _build_spatial_representation(b.main)
            \o _build_extent(b.main))>>)>>

\* the distribution block with the `or "Unknown"` of line 492 left out
_build_distribution_unnamed(b) ==
    LET format_name == IF b.citation # NoRow THEN Get(b.citation, "citation_data_form")
                       ELSE None
    IN  <<SubElement("gmd:distributionInfo",
            <<SubElement("gmd:MD_Distribution",
                <<SubElement("gmd:distributionFormat",
                    <<SubElement("gmd:MD_Format",
                        <<SubElement("gmd:name", <<_character_string(format_name)>>)>>
                        \o (IF b.citation # NoRow /\ truthy(Get(b.citation, "citation_title"))
                            THEN <<SubElement("gmd:version",
                                    <<_character_string(Get(b.citation, "citation_title"))>>)>>
                            ELSE << >>))>>)>>)>>)>>

\* lines 476-499
_build_distribution(b) ==
    LET format_name == IF b.citation # NoRow /\ truthy(Get(b.citation, "citation_data_form"))
                       THEN Get(b.citation, "citation_data_form") ELSE Str(<<"Unknown">>)
    IN  <<SubElement("gmd:distributionInfo",
            <<SubElement("gmd:MD_Distribution",
                <<SubElement("gmd:distributionFormat",
                    <<SubElement("gmd:MD_Format",
                        <<SubElement("gmd:name", <<_character_string(format_name)>>)>>
                        \o (IF b.citation # NoRow /\ truthy(Get(b.citation, "citation_title"))
                            THEN <<SubElement("gmd:version",
                                    <<_character_string(Get(b.citation, "citation_title"))>>)>>
                            ELSE << >>))>>)>>)>>)>>

_build_ci_citation(citation) ==
    SubElement("gmd:CI_Citation",
        <<SubElement("gmd:title", <<_character_string(Get(citation, "citation_title"))>>)>>
        \o (IF truthy(Get(citation, "citation_pubdate"))
            THEN <<SubElement("gmd:date",
                    <<SubElement("gmd:CI_Date",
                        <<SubElement("gmd:date",
                            <<_character_string(_format_date(Get(citation, "citation_pubdate")))>>),
                          SubElement("gmd:dateType",
                            <<CodeElement("gmd:CI_DateTypeCode",
                                          "codeList.xml#CI_DateTypeCode",
                                          <<"publication">>, <<"publication">>)>>)>>)>>)>>
            ELSE << >>)
        \o (IF truthy(Get(citation, "online_linkage"))
            THEN <<SubElement("gmd:onlineResource",
                    <<SubElement("gmd:CI_OnlineResource",
                        <<SubElement("gmd:linkage",
                            <<TextElement("gmd:URL", Get(citation, "online_linkage").text)>>)>>)>>)>>
            ELSE << >>))

\* lines 556-560: the source's own citation_id, then those of its link rows
source_linked_citation_ids(b, source) ==
    (IF Truthy(source.citation_id) THEN <<source.citation_id>> ELSE << >>)
    \o (IF source.source_id \in DOMAIN b.source_citations
        THEN [i \in DOMAIN b.source_citations[source.source_id] |->
                b.source_citations[source.source_id][i].citation_id]
        ELSE << >>)

\* the citation loop with the test of line 564 left out: an identifier the
\* lookup lacks gets a sourceCitation element with nothing in it
source_citation_children_unchecked(b, source) ==
    LET linked_citation_ids == source_linked_citation_ids(b, source)
    IN  [i \in DOMAIN linked_citation_ids |->
            IF linked_citation_ids[i] \in DOMAIN b.citation_lookup
            THEN SubElement("gmd:sourceCitation",
                    <<_build_ci_citation(b.citation_lookup[linked_citation_ids[i]])>>)
            ELSE SubElement("gmd:sourceCitation", << >>)]

\* lines 562-566
source_citation_children(b, source) ==
    LET linked_citation_ids ==
            SelectSeq(source_linked_citation_ids(b, source),
                      LAMBDA citation_id : citation_id \in DOMAIN b.citation_lookup)
    IN  [i \in DOMAIN linked_citation_ids |->
            SubElement("gmd:sourceCitation",
                <<_build_ci_citation(b.citation_lookup[linked_citation_ids[i]])>>)]

\* the block of one source with the scale gated on source_scale itself
source_element_scale_gated(b, source) ==
    SubElement("gmd:source",
        <<SubElement("gmd:LI_Source",
            (IF truthy(Get(source, "source_contribution"))
             THEN <<SubElement("gmd:description",
                        <<_character_string(Get(source, "source_contribution"))>>)>>
             ELSE << >>)
            \o (IF truthy(Get(source, "source_scale"))
                THEN <<SubElement("gmd:sourceScale",
                        <<SubElement("gmd:MD_RepresentativeFraction",
                            <<SubElement("gmd:denominator",
                                <<_character_string(Get(source, "source_scale"))>>)>>)>>)>>
                ELSE << >>)
            \o source_citation_children(b, source))>>)

\* lines 543-566: the block of one source
source_element(b, source) ==
    SubElement("gmd:source",
        <<SubElement("gmd:LI_Source",
            (IF truthy(Get(source, "source_contribution"))
             THEN <<SubElement("gmd:description",
                        <<_character_string(Get(source, "source_contribution"))>>)>>
             ELSE << >>)
            \o (IF truthy(Get(source, "source_name"))
                THEN <<SubElement("gmd:sourceScale",
                        <<SubElement("gmd:MD_RepresentativeFraction",
                            <<SubElement("gmd:denominator",
                                <<_character_string(Get(source, "source_scale"))>>)>>)>>)>>
                ELSE << >>)
            \o source_citation_children(b, source))>>)

_build_data_quality(b) ==
    LET accuracy ==
            IF b.group # NoRow /\ truthy(Get(b.group, "attribute_accuracy_report"))
            THEN Get(b.group, "attribute_accuracy_report")
            ELSE Str(<<"No", " ", "attribute", " ", "accuracy", " ", "report", " ",
                       "supplied.">>)
    IN  <<SubElement("gmd:dataQualityInfo",
            <<SubElement("gmd:DQ_DataQuality",
                <<SubElement("gmd:scope",
                    <<SubElement("gmd:DQ_Scope",
                        <<SubElement("gmd:level",
                            <<CodeElement("gmd:MD_ScopeCode", "codeList.xml#MD_ScopeCode",
                                          <<"dataset">>, <<"dataset">>)>>)>>)>>),
                  SubElement("gmd:report",
                    <<SubElement("gmd:DQ_DomainConsistency",
                        <<SubElement("gmd:result",
                            <<SubElement("gmd:DQ_ConformanceResult",
                                <<SubElement("gmd:explanation",
                                    <<_character_string(accuracy)>>),
                                  SubElement("gmd:pass",
                                    <<TextElement("gco:Boolean", <<"true">>)>>)>>)>>)>>)>>),
                  SubElement("gmd:lineage",
                    <<SubElement("gmd:LI_Lineage",
                        [i \in DOMAIN b.sources |-> source_element(b, b.sources[i])])>>)>>)>>)>>

\* "; ".join(parts)
Join(parts) ==
    LET upto[i \in 0..Len(parts)] ==
            IF i = 0 THEN NoText
            ELSE IF i = 1 THEN parts[1]
            ELSE upto[i - 1] \o <<";", " ">> \o parts[i]
    IN  upto[Len(parts)]

\* the description with `if width:` in place of `if width is not None:`
description_children_truthy(attribute) ==
    LET detail_parts ==
            (IF truthy(Get(attribute, "attribute_width"))
             THEN <<<<"width=">> \o str(Get(attribute, "attribute_width"))>> ELSE << >>)
            \o (IF truthy(Get(attribute, "attribute_precision"))
                THEN <<<<"precision=">> \o str(Get(attribute, "attribute_precision"))>> ELSE << >>)
            \o (IF truthy(Get(attribute, "attribute_scale"))
                THEN <<<<"scale=">> \o str(Get(attribute, "attribute_scale"))>> ELSE << >>)
    IN  IF detail_parts # << >>
        THEN _optional_element("gmd:description", Str(Join(detail_parts)))
        ELSE << >>

\* lines 629-641
description_children(attribute) ==
    LET detail_parts ==
            (IF ~IsNone(Get(attribute, "attribute_width"))
             THEN <<<<"width=">> \o str(Get(attribute, "attribute_width"))>> ELSE << >>)
            \o (IF ~IsNone(Get(attribute, "attribute_precision"))
                THEN <<<<"precision=">> \o str(Get(attribute, "attribute_precision"))>> ELSE << >>)
            \o (IF ~IsNone(Get(attribute, "attribute_scale"))
                THEN <<<<"scale=">> \o str(Get(attribute, "attribute_scale"))>> ELSE << >>)
    IN  IF detail_parts # << >>
        THEN _optional_element("gmd:description", Str(Join(detail_parts)))
        ELSE << >>

_build_extension_info(b) ==
    IF b.attributes = << >> THEN << >>
    ELSE <<SubElement("gmd:metadataExtensionInfo",
            <<SubElement("gmd:MD_MetadataExtensionInformation",
                [i \in DOMAIN b.attributes |->
                    LET attribute == b.attributes[i]
                    IN  SubElement("gmd:extendedElementInformation",
                            _optional_element("gmd:name", Get(attribute, "attribute_name"))
                            \o _optional_element("gmd:shortName", Get(attribute, "attribute_alias"))
                            \o _optional_element("gmd:definition",
                                                 Get(attribute, "attribute_definition"))
                            \o _optional_element("gmd:condition", Get(attribute, "codeset_name"))
                            \o (IF truthy(Get(attribute, "attribute_type"))
                                THEN <<SubElement("gmd:dataType",
                                        <<_character_string(Get(attribute, "attribute_type"))>>)>>
                                ELSE << >>)
                            \o description_children(attribute))])>>)>>

\* the tree with the data-quality block written before the distribution block
build_metadata_tree_quality_first(b, opts) ==
    SubElement("gmd:MD_Metadata",
        _build_file_identifier(b)
        \o _build_language(opts.language_code)
        \o _build_character_set(opts.character_set)
        \o _build_hierarchy_level(opts.hierarchy_level)
        \o _build_contact(b, opts)
        \o _build_date_stamp(opts.date_stamp)
        \o _build_reference_system
        \o _build_identification_info(b)
        \o _build_data_quality(b)
        \o _build_distribution(b)
        \o _build_extension_info(b))

\* the root element of the tree build_metadata_tree returns
build_metadata_tree(b, opts) ==
    SubElement("gmd:MD_Metadata",
        _build_file_identifier(b)
        \o _build_language(opts.language_code)
        \o _build_character_set(opts.character_set)
        \o _build_hierarchy_level(opts.hierarchy_level)
        \o _build_contact(b, opts)
        \o _build_date_stamp(opts.date_stamp)
        \o _build_reference_system
        \o _build_identification_info(b)
        \o _build_distribution(b)
        \o _build_data_quality(b)
        \o _build_extension_info(b))

---------------------------------------------------------------------------
(* Export driver (export_metadata.export_metadata_records)                 *)

\* line 126: configs = config_loader.load_configurations(configuration_path)
LoadConfigurations ==
    /\ pc = "load"
    /\ IF load_configurations_error(csv) # "none"
       THEN /\ error' = load_configurations_error(csv)
            /\ pc' = "raised"
            /\ UNCHANGED configs
       ELSE /\ configs' = load_configurations(csv)
            /\ pc' = "mkdir"
            /\ UNCHANGED error
    /\ UNCHANGED <<inputs, cleaner, idx, dir_created, connected, frame, bundle, tree, built, trace,
                   events, written_files>>

\* line 129: ensure_output_directory(output_directory)
EnsureOutputDirectory ==
    /\ pc = "mkdir"
    /\ dir_created' = TRUE
    /\ pc' = "connect"
    /\ UNCHANGED <<inputs, cleaner, error, configs, idx, connected, frame, bundle, tree, built, trace,
                   events, written_files>>

\* line 132: with db.create_connection() as connection
CreateConnection ==
    /\ pc = "connect"
    /\ IF credentials
       THEN /\ connected' = TRUE
            /\ pc' = "loop"
            /\ UNCHANGED error
       ELSE /\ error' = "EnvironmentError"
            /\ pc' = "raised"
            /\ UNCHANGED connected
    /\ UNCHANGED <<inputs, cleaner, configs, idx, dir_created, frame, bundle, tree, built, trace,
                   events, written_files>>

\* lines 133-135 and db.py line 427: the loop takes the next config and calls
\* fetch_metadata_bundle, which starts the bundle
NextConfig ==
    /\ pc = "loop"
    /\ idx < Len(configs)
    /\ idx' = idx + 1
    /\ assembling' = [metadata_id |-> configs[idx + 1].metadata_id]
    /\ source_citation_map' = EmptyMap
    /\ pc' = "fetch_main"
    /\ UNCHANGED <<inputs, cleaner, error, configs, dir_created, connected, bundle, tree, built, trace,
                   events, written_files>>

---------------------------------------------------------------------------
(* fetch_metadata_bundle, db.py lines 427-495                              *)

\* the config the loop is at
config == configs[idx]

\* the statements of fetch_metadata_bundle run in the order they are written
StepOrder ==
    <<"fetch_main", "fetch_group", "fetch_citation", "fetch_contacts", "fetch_attributes",
      "fetch_keywords", "fetch_sources", "fetch_source_citations", "fetch_citations_for_ids">>

\* the statements with the attribute fetch moved ahead of the contact batch
NextStepAttributesEarly(step) ==
    LET order == <<"fetch_main", "fetch_group", "fetch_attributes", "fetch_citation",
                   "fetch_contacts", "fetch_keywords", "fetch_sources",
                   "fetch_source_citations", "fetch_citations_for_ids">>
        i == CHOOSE j \in DOMAIN order : order[j] = step
    IN  IF i < Len(order) THEN order[i + 1] ELSE "build"

\* the step after `step`; after the last one the bundle is returned and the
\* driver builds (export_metadata.py line 142)
NextStep(step) ==
    LET i == CHOOSE j \in DOMAIN StepOrder : StepOrder[j] = step
    IN  IF i < Len(StepOrder) THEN StepOrder[i + 1] ELSE "build"

\* fetch_metadata_bundle with the None test of line 430 lost: a missing primary
\* record hands the bundle started at line 427 back to the driver
FetchMainRecordPartial ==
    /\ pc = "fetch_main"
    /\ LET main == fetch_main_record(store, assembling.metadata_id)
       IN  /\ trace' = Append(trace, Call("fetch_main_record", <<assembling.metadata_id>>, TRUE))
           /\ IF main = NoRow
              THEN /\ bundle' = assembling
                   /\ assembling' = NoRow
                   /\ pc' = "build"
              ELSE /\ assembling' = assembling @@ [main |-> main]
                   /\ pc' = NextStep("fetch_main")
                   /\ UNCHANGED bundle
    /\ UNCHANGED <<inputs, cleaner, error, connected, configs, idx, dir_created, source_citation_map,
                   tree, built, events, written_files>>

\* lines 429-432
FetchMainRecord ==
    /\ pc = "fetch_main"
    /\ LET main == fetch_main_record(store, assembling.metadata_id)
       IN  /\ trace' = Append(trace, Call("fetch_main_record", <<assembling.metadata_id>>, TRUE))
           /\ IF main = NoRow
              THEN /\ Raise("LookupError")
                   /\ assembling' = NoRow
              ELSE /\ assembling' = assembling @@ [main |-> main]
                   /\ pc' = NextStep("fetch_main")
                   /\ UNCHANGED <<error, connected>>
    /\ UNCHANGED <<inputs, cleaner, configs, idx, dir_created, source_citation_map, bundle, tree, built,
                   events, written_files>>

\* lines 434-437
FetchGroup ==
    /\ pc = "fetch_group"
    /\ LET group_id == assembling.main.group_id
       IN  IF Truthy(group_id)
           THEN /\ assembling' = assembling @@ [group |-> fetch_group(store, group_id)]
                /\ trace' = Append(trace, Call("fetch_group", <<group_id>>, TRUE))
           ELSE /\ assembling' = assembling @@ [group |-> NoRow]
                /\ UNCHANGED trace
    /\ pc' = NextStep("fetch_group")
    /\ UNCHANGED <<inputs, cleaner, error, configs, idx, dir_created, connected,
                   source_citation_map, bundle, tree, built, events, written_files>>

\* lines 439-442
FetchCitation ==
    /\ pc = "fetch_citation"
    /\ LET citation_id == assembling.main.citation_id
       IN  IF Truthy(citation_id)
           THEN /\ assembling' = assembling @@ [citation |-> fetch_citation(store, citation_id)]
                /\ trace' = Append(trace, Call("fetch_citation", <<citation_id>>, TRUE))
           ELSE /\ assembling' = assembling @@ [citation |-> NoRow]
                /\ UNCHANGED trace
    /\ pc' = NextStep("fetch_citation")
    /\ UNCHANGED <<inputs, cleaner, error, configs, idx, dir_created, connected,
                   source_citation_map, bundle, tree, built, events, written_files>>

\* lines 444-465
FetchContacts ==
    /\ pc = "fetch_contacts"
    /\ LET group == assembling.group
           contact_ids == ContactIdsOf(group)
           unique_ids == UniqueIds(contact_ids)
           fetched == fetch_contacts_for_ids(store, unique_ids)
           contact_lookup == IF contact_ids # << >> THEN fetched.rows ELSE EmptyMap
       IN  /\ trace' = IF contact_ids # << >>
                       THEN Append(trace, Call("fetch_contacts_for_ids", unique_ids,
                                               fetched.executed))
                       ELSE trace
           /\ assembling' = assembling @@
                [group_contact |->
                    IF group # NoRow /\ group.contact_id # NULL
                    THEN ContactOf(contact_lookup, group.contact_id) ELSE NoRow,
                 metadata_contact |->
                    IF group # NoRow /\ group.metadata_contact_id # NULL
                    THEN ContactOf(contact_lookup, group.metadata_contact_id) ELSE NoRow]
    /\ pc' = NextStep("fetch_contacts")
    /\ UNCHANGED <<inputs, cleaner, error, configs, idx, dir_created, connected,
                   source_citation_map, bundle, tree, built, events, written_files>>

\* line 467
FetchAttributes ==
    /\ pc = "fetch_attributes"
    /\ assembling' = assembling @@
            [attributes |-> fetch_attributes(store, assembling.metadata_id)]
    /\ trace' = Append(trace, Call("fetch_attributes", <<assembling.metadata_id>>, TRUE))
    /\ pc' = NextStep("fetch_attributes")
    /\ UNCHANGED <<inputs, cleaner, error, configs, idx, dir_created, connected,
                   source_citation_map, bundle, tree, built, events, written_files>>

\* the keyword fetch with include_keywords ignored
FetchKeywordsAlways ==
    /\ pc = "fetch_keywords"
    /\ assembling' = assembling @@
            [keywords |-> fetch_keywords(store, assembling.metadata_id)]
    /\ trace' = Append(trace, Call("fetch_keywords", <<assembling.metadata_id>>, TRUE))
    /\ pc' = NextStep("fetch_keywords")
    /\ UNCHANGED <<inputs, cleaner, error, configs, idx, dir_created, connected,
                   source_citation_map, bundle, tree, built, events, written_files>>

\* lines 469-471
FetchKeywords ==
    /\ pc = "fetch_keywords"
    /\ IF config.include_keywords
       THEN /\ assembling' = assembling @@
                    [keywords |-> fetch_keywords(store, assembling.metadata_id)]
            /\ trace' = Append(trace, Call("fetch_keywords", <<assembling.metadata_id>>, TRUE))
       ELSE /\ assembling' = assembling @@ [keywords |-> << >>]
            /\ UNCHANGED trace
    /\ pc' = NextStep("fetch_keywords")
    /\ UNCHANGED <<inputs, cleaner, error, configs, idx, dir_created, connected,
                   source_citation_map, bundle, tree, built, events, written_files>>

\* lines 473-474
FetchSources ==
    /\ pc = "fetch_sources"
    /\ IF config.include_sources
       THEN /\ assembling' = assembling @@
                    [sources |-> fetch_sources(store, assembling.metadata_id)]
            /\ trace' = Append(trace, Call("fetch_sources", <<assembling.metadata_id>>, TRUE))
       ELSE /\ assembling' = assembling @@ [sources |-> << >>]
            /\ UNCHANGED trace
    /\ pc' = NextStep("fetch_sources")
    /\ UNCHANGED <<inputs, cleaner, error, configs, idx, dir_created, connected,
                   source_citation_map, bundle, tree, built, events, written_files>>

\* lines 476-480
FetchSourceCitations ==
    /\ pc = "fetch_source_citations"
    /\ LET sources == assembling.sources
           source_ids == [i \in DOMAIN sources |-> sources[i].source_id]
           fetched == fetch_source_citations(store, source_ids)
       IN  IF sources # << >>
           THEN /\ source_citation_map' = fetched.rows
                /\ trace' = Append(trace, Call("fetch_source_citations", source_ids,
                                               fetched.executed))
           ELSE /\ source_citation_map' = EmptyMap
                /\ UNCHANGED trace
    /\ pc' = NextStep("fetch_source_citations")
    /\ UNCHANGED <<inputs, cleaner, error, configs, idx, dir_created, connected, assembling, bundle,
                   tree, built, events, written_files>>

\* lines 477 and 481-495: the citation batch, the last two bundle fields, and the
\* return to the driver (export_metadata.py line 135)
FetchCitationsForIds ==
    /\ pc = "fetch_citations_for_ids"
    /\ LET sources == assembling.sources
           citation_ids == SortedIds(LinkedCitationIds(sources, source_citation_map))
           fetched == fetch_citations_for_ids(store, citation_ids)
           returned == assembling @@
                [source_citations |-> source_citation_map,
                 citation_lookup |-> IF sources # << >> THEN fetched.rows ELSE EmptyMap]
       IN  /\ trace' = IF sources # << >>
                       THEN Append(trace, Call("fetch_citations_for_ids", citation_ids,
                                               fetched.executed))
                       ELSE trace
           /\ assembling' = NoRow
           /\ bundle' = returned
           /\ events' = Append(events, <<"assemble", returned.metadata_id>>)
    /\ source_citation_map' = EmptyMap
    /\ pc' = NextStep("fetch_citations_for_ids")
    /\ UNCHANGED <<inputs, cleaner, error, configs, idx, dir_created, connected, tree, built,
                   written_files>>

---------------------------------------------------------------------------
(* export_metadata_records after the bundle is back, lines 142-143.        *)
(* Line 143 calls xml_builder.format_tree_for_output, a name xml_builder   *)
(* does not define: the attribute lookup raises AttributeError, which      *)
(* leaves the loop and the function.  Lines 144-152 (the dry-run test, the *)
(* write, written_files.append and the return) therefore never run, and    *)
(* the model has no action for them.                                       *)

\* line 142
BuildMetadataTree ==
    /\ pc = "build"
    /\ tree' = build_metadata_tree(bundle, options)
    /\ built' = Append(built, [today |-> today, tree |-> tree'])
    /\ events' = Append(events, <<"build", bundle.metadata_id>>)
    /\ pc' = "format"
    /\ UNCHANGED <<inputs, cleaner, error, configs, idx, dir_created, connected, frame, bundle,
                   trace, written_files>>

\* line 143
FormatTreeForOutput ==
    /\ pc = "format"
    /\ Raise("AttributeError")
    /\ UNCHANGED <<inputs, cleaner, configs, idx, dir_created, frame, bundle, tree, built, trace, events,
                   written_files>>

\* line 148: output_directory / f"{config.metadata_id}.xml"
output_path(metadata_id) == [directory |-> "output", name |-> <<metadata_id, ".xml">>]

Next ==
    \/ LoadConfigurations
    \/ EnsureOutputDirectory
    \/ CreateConnection
    \/ NextConfig
    \/ FetchMainRecord
    \/ FetchGroup
    \/ FetchCitation
    \/ FetchContacts
    \/ FetchAttributes
    \/ FetchKeywords
    \/ FetchSources
    \/ FetchSourceCitations
    \/ FetchCitationsForIds
    \/ BuildMetadataTree
    \/ FormatTreeForOutput

Spec == Init /\ [][Next]_vars

---------------------------------------------------------------------------
(* The document builder on its own: build_metadata_tree called on a bundle *)
(* with options, more than once, while the calendar date may change        *)
(* between the calls.  A case is the bundle and the options of the calls.  *)

\* most calls of build_metadata_tree in one builder run
MaxBuilds == 2
\* most METADATA_KEYWORDS rows of one metadata record
MaxKeywords == 3

\* the longest attribute list of a builder case
MaxAttributes == 2

\* the calendar dates of the clock, in order
Days == <<"2025-03-01", "2025-03-02">>

\* the minimal record: a title, no abstract, no group, no citation, no rows
MinimalBundle ==
    [metadata_id |-> "M1",
     main |-> MainRow("M1", NULL, NULL) @@ [title |-> Str(<<"Soil", " ", "Map">>)],
     group |-> NoRow, citation |-> NoRow, group_contact |-> NoRow,
     metadata_contact |-> NoRow, attributes |-> << >>, keywords |-> << >>,
     sources |-> << >>, source_citations |-> EmptyMap, citation_lookup |-> EmptyMap]

Case(b, opts) == [bundle |-> b, options |-> opts]

\* what a text column may hold: NULL, the empty string, blanks, a text
TextValues(text) == {None, Str(NoText), Str(<<" ">>), Str(<<text>>)}

\* what a date column or a date option may hold
NativeDates == {date("1983-06-01"), datetime("1983-06-01", "10:30:00")}

DateValues ==
    {None} \cup NativeDates
    \cup {Str(NoText), Str(<<" ">>), Str(<<"1983">>), Str(<<" ", "1983", " ">>),
          Str(<<"June", " ", "1983">>), Num(<<"1983">>)}

\* what a coordinate column may hold
CoordinateValues == {None, Num(<<"0">>), Num(<<"-6.5">>)}

\* group and main record in every combination of purpose and supplemental text
PurposeCases ==
    {Case([MinimalBundle EXCEPT
              !.main = MainRow("M1", IF grp = NoRow THEN NULL ELSE "G1", NULL)
                       @@ [supplemental_information |-> supplemental],
              !.group = grp],
          DefaultOptions) :
        grp \in {NoRow} \cup {GroupRow("G1", NULL, NULL) @@ [purpose |-> purpose] :
                                purpose \in TextValues("purpose")},
        supplemental \in TextValues("supplement")}

\* one date value in every place that renders a date: the main citation, a
\* lineage citation, the temporal extent and, for a native date, the date stamp
DateCases ==
    {Case([MinimalBundle EXCEPT
              !.main = MainRow("M1", NULL, "C1")
                       @@ [west_bounding_coordinate |-> Num(<<"-6.5">>),
                           temporal_date_from |-> value],
              !.citation = CitationRow("C1") @@ [citation_pubdate |-> value],
              !.sources = <<SourceRow("S1", "C2")>>,
              !.citation_lookup = [c \in {"C2"} |->
                                      CitationRow(c) @@ [citation_pubdate |-> value]]],
          BuildOptions(IF value \in NativeDates THEN value ELSE None, None, None, None)) :
        value \in DateValues}

\* every combination of the four coordinates, with and without temporal dates
ExtentCases ==
    {Case([MinimalBundle EXCEPT
              !.main = MainRow("M1", NULL, NULL)
                       @@ [west_bounding_coordinate |-> west,
                           east_bounding_coordinate |-> east,
                           south_bounding_coordinate |-> south,
                           north_bounding_coordinate |-> north,
                           temporal_date_from |-> from,
                           temporal_date_to |-> to]],
          DefaultOptions) :
        west \in CoordinateValues, east \in CoordinateValues,
        south \in CoordinateValues, north \in CoordinateValues,
        from \in {None, date("1980-01-01")}, to \in {None, Str(<<" ">>), Str(<<"1999">>)}}

KeywordRows ==
    {KeywordRow("M1", row[1], Str(<<row[2]>>)) :
        row \in {<<None, "soil">>, <<Str(NoText), "England">>, <<Str(<<" ">>), "soil">>,
                 <<Str(<<"theme">>), "soil">>, <<Str(<<"theme">>), "England">>,
                 <<Str(<<" ", "theme">>), "England">>, <<Str(<<"place">>), "England">>}}

KeywordCases ==
    {Case([MinimalBundle EXCEPT !.keywords = keywords], DefaultOptions) :
        keywords \in SeqsUpTo(KeywordRows, MaxKeywords)}

\* the citation records a lineage lookup may hold; C3 has none
LineageCitation(citation_id) ==
    CitationRow(citation_id) @@ [citation_title |-> Str(<<"Soils", " ", citation_id>>)]

\* the link rows of one source as fetch_source_citations groups them
LinkRowsOf(source_id) ==
    {<<LinkRow(source_id, "C1")>>, <<LinkRow(source_id, "C3")>>,
     <<LinkRow(source_id, "C1"), LinkRow(source_id, "C2")>>}

\* sources, their link rows and a lookup over part of the citations they name
LineageCases ==
    {Case([MinimalBundle EXCEPT !.sources = sources, !.source_citations = links,
                                !.citation_lookup = [c \in found |-> LineageCitation(c)]],
          DefaultOptions) :
        sources \in SeqsUpTo({SourceRow(s, c) : s \in SourceIds, c \in {NULL, "C1", "C3"}},
                             MaxSources),
        links \in UNION {{f \in [linked -> UNION {LinkRowsOf(s) : s \in linked}] :
                            \A s \in linked : f[s] \in LinkRowsOf(s)} :
                         linked \in SUBSET SourceIds},
        found \in {{}, {"C1"}, {"C1", "C2"}}}

\* the links belong to sources of the bundle and the lookup to citations it names
WellFormed(b) ==
    /\ DOMAIN b.source_citations \subseteq {b.sources[i].source_id : i \in DOMAIN b.sources}
    /\ DOMAIN b.citation_lookup \subseteq LinkedCitationIds(b.sources, b.source_citations)

\* the minimal record under every shape of the options a caller may pass
OptionCases ==
    {Case(MinimalBundle, BuildOptions(date_stamp, name, organisation, email)) :
        date_stamp \in {None} \cup NativeDates,
        name \in TextValues("Hallett"), organisation \in TextValues("Cranfield"),
        email \in {None, Str(<<"landis@cranfield.ac.uk">>)}}

\* the main record with and without a title and an abstract, nothing else
SkeletonCases ==
    {Case([MinimalBundle EXCEPT
              !.main = MainRow("M1", NULL, NULL) @@ [title |-> title, abstract |-> abstract]],
          DefaultOptions) :
        title \in {None, Str(<<"Soil", " ", "Map">>)}, abstract \in TextValues("abstract")}

\* what status_progress may hold
StatusCases ==
    {Case([MinimalBundle EXCEPT
              !.main = MainRow("M1", NULL, NULL) @@ [status_progress |-> status_progress]],
          DefaultOptions) :
        status_progress \in TextValues("Complete") \cup {Str(<<" ", "Complete">>)}}

\* one source in every combination of name, scale and contribution
SourceCases ==
    {Case([MinimalBundle EXCEPT
              !.sources = <<SourceRow("S1", NULL)
                            @@ [source_name |-> source_name, source_scale |-> source_scale,
                                source_contribution |-> source_contribution]>>],
          DefaultOptions) :
        source_name \in {None, Str(NoText), Str(<<"Soil", " ", "Survey">>)},
        source_scale \in {None, Str(NoText), Str(<<"250000">>)},
        source_contribution \in {None, Str(NoText), Str(<<"field", " ", "record">>)}}

\* the attribute records: width, precision and scale null or a number, zero included
AttributeRows ==
    {AttributeRow("M1", "DEPTH")
     @@ [attribute_width |-> row[1], attribute_precision |-> row[2],
         attribute_scale |-> row[3]] :
        row \in {<<None, None, None>>, <<Num(<<"0">>), None, Num(<<"0">>)>>,
                 <<Num(<<"10">>), Num(<<"2">>), None>>, <<None, None, Num(<<"0">>)>>,
                 <<None, Num(<<"2">>), Num(<<"0">>)>>,
                 <<Num(<<"10">>), Num(<<"2">>), Num(<<"0">>)>>}}

AttributeCases ==
    {Case([MinimalBundle EXCEPT !.attributes = attributes], DefaultOptions) :
        attributes \in SeqsUpTo(AttributeRows, MaxAttributes)}

\* group and citation absent or present, with every accuracy report and data form
QualityCases ==
    {Case([MinimalBundle EXCEPT
              !.main = MainRow("M1", IF grp = NoRow THEN NULL ELSE "G1",
                               IF citation = NoRow THEN NULL ELSE "C1")
                       @@ [title |-> Str(<<"Soil", " ", "Map">>)],
              !.group = grp, !.citation = citation],
          DefaultOptions) :
        grp \in {NoRow} \cup {GroupRow("G1", NULL, NULL) @@ [attribute_accuracy_report |-> report] :
                                report \in TextValues("checked")},
        citation \in {NoRow} \cup {CitationRow("C1") @@ [citation_data_form |-> form] :
                                      form \in TextValues("map")}}

BuilderCases ==
    PurposeCases \cup DateCases \cup ExtentCases \cup KeywordCases
    \cup {case \in LineageCases : WellFormed(case.bundle)} \cup OptionCases
    \cup SkeletonCases \cup StatusCases \cup SourceCases \cup AttributeCases \cup QualityCases

\* a store with no record in it: the builder reads none
EmptyStore ==
    MakeStore([m \in MetadataIds |-> NoRow], [g \in GroupIds |-> NoRow],
              [m \in MetadataIds |-> << >>], [s \in SourceIds |-> SourceRow(s, NULL)], << >>)

BuilderInit ==
    /\ \E case \in BuilderCases : bundle = case.bundle /\ options = case.options
    /\ today = date(Days[1])
    /\ store = EmptyStore
    /\ csv = CsvFile(FALSE, FALSE, << >>)
    /\ dry_run = TRUE
    /\ credentials = FALSE
    /\ pc = "builder"
    /\ error = "none"
    /\ configs = << >>
    /\ idx = 0
    /\ dir_created = FALSE
    /\ connected = FALSE
    /\ assembling = NoRow
    /\ source_citation_map = EmptyMap
    /\ tree = NoRow
    /\ trace = << >>
    /\ events = << >>
    /\ written_files = << >>
    /\ built = << >>
    /\ IdleCleaner

\* a caller's build_metadata_tree(bundle, options)
Build ==
    /\ pc = "builder"
    /\ Len(built) < MaxBuilds
    /\ tree' = build_metadata_tree(bundle, options)
    /\ built' = Append(built, [today |-> today, tree |-> tree'])
    /\ UNCHANGED <<inputs, cleaner, pc, error, configs, idx, dir_created, connected, frame, bundle,
                   trace, events, written_files>>

\* midnight passes between two builds: date.today() moves on by a day
ClockTick ==
    /\ pc = "builder"
    /\ built # << >>
    /\ \E d \in 1..(Len(Days) - 1) : today = date(Days[d]) /\ today' = date(Days[d + 1])
    /\ UNCHANGED <<cleaner, store, csv, dry_run, credentials, options, pc, error, configs, idx,
                   dir_created, connected, frame, bundle, tree, built, trace, events,
                   written_files>>

BuilderNext ==
    \/ Build
    \/ ClockTick

BuilderSpec == BuilderInit /\ [][BuilderNext]_vars

---------------------------------------------------------------------------
(* Quote normalisation (cleanup.normalise_quotes)                          *)
(*                                                                         *)
(* A str is the sequence of the code points of its characters.             *)

\* the longest str normalise_quotes is called with
MaxLen == 2

Apostrophe == 39
QuotationMark == 34

\* lines 33-63: the keys mapped to "'" and the keys mapped to '"'
ToApostrophe ==
    {8216, 8217, 8218, 8219, 8242, 8245, 96, 180, 699, 700, 10075, 10076, 10079, 10080, 191}

ToQuotationMark ==
    {8220, 8221, 8222, 8223, 8243, 8246, 171, 187, 733, 10077, 10078, 12317, 12318, 12319}

_NORMALISATION_MAP ==
    [c \in ToApostrophe \cup ToQuotationMark |->
        IF c \in ToApostrophe THEN Apostrophe ELSE QuotationMark]

\* value.translate(_TRANSLATION_TABLE)
normalise_quotes(text) ==
    [i \in DOMAIN text |->
        IF text[i] \in DOMAIN _NORMALISATION_MAP THEN _NORMALISATION_MAP[text[i]]
        ELSE text[i]]

\* the characters of the strs of a quote run: every key of the map, the two
\* ASCII quotes, a letter, U+007E and a letter outside ASCII (U+00E9)
Characters == DOMAIN _NORMALISATION_MAP \cup {Apostrophe, QuotationMark, 97, 126, 233}

QuoteInit ==
    /\ raw_text \in SeqsUpTo(Characters, MaxLen)
    /\ normalised = <<raw_text>>
    /\ pc = "quotes"
    /\ cleanup_config = [exists |-> FALSE, targets |-> << >>]
    /\ tables = << >>
    /\ committed = << >>
    /\ fault = 0
    /\ session = << >>
    /\ updates = << >>
    /\ total_updates = 0
    /\ returned_total = NULL
    /\ store = EmptyStore
    /\ csv = CsvFile(FALSE, FALSE, << >>)
    /\ dry_run = TRUE
    /\ credentials = FALSE
    /\ options = DefaultOptions
    /\ today = date(Days[1])
    /\ error = "none"
    /\ configs = << >>
    /\ idx = 0
    /\ dir_created = FALSE
    /\ connected = FALSE
    /\ assembling = NoRow
    /\ source_citation_map = EmptyMap
    /\ bundle = NoRow
    /\ tree = NoRow
    /\ trace = << >>
    /\ events = << >>
    /\ written_files = << >>
    /\ built = << >>

\* most calls of normalise_quotes in one quote run
MaxPasses == 2

\* a caller's normalise_quotes(value), value being what the last call returned
NormaliseQuotes ==
    /\ pc = "quotes"
    /\ Len(normalised) <= MaxPasses
    /\ normalised' = Append(normalised, normalise_quotes(normalised[Len(normalised)]))
    /\ UNCHANGED <<inputs, cleanup_config, tables, committed, fault, session, updates,
                   total_updates, returned_total, raw_text, pc, error, configs, idx,
                   dir_created, connected, frame, bundle, tree, built, trace, events,
                   written_files>>

QuoteNext == NormaliseQuotes

QuoteSpec == QuoteInit /\ [][QuoteNext]_vars

---------------------------------------------------------------------------
(* Cleanup run (cleanup.run_cleanup)                                       *)
(*                                                                         *)
(* A run uses pc, error, connected, credentials, dry_run and idx as the    *)
(* export run does: dry_run is run_cleanup's local `not args.commit`, idx  *)
(* the position of the for loop in targets.  The targets name columns of   *)
(* one table; a column is the sequence of its values by ROWID.  A WHERE    *)
(* clause and an identifier column only narrow the scan and label the log; *)
(* they are left out.                                                      *)

\* most targets of a configuration file
MaxTargets == 2
\* the rows of the table
MaxRows == 2
\* the latest cursor.execute call that may raise
MaxFault == 3

Columns == {"TITLE", "ABSTRACT"}

\* a target entry of the JSON file; a key the entry lacks is NULL
Payload(table, column) == [table |-> table, column |-> column]

\* lines 97-105: from_payload raises ValueError when 'table' or 'column' is missing
from_payload_error(payload) ==
    IF payload.table = NULL \/ payload.column = NULL THEN "ValueError" ELSE "none"

\* lines 123-130: what _load_targets raises for the file, or "none"
_load_targets_error(file) ==
    IF \E i \in DOMAIN file.targets : from_payload_error(file.targets[i]) # "none"
    THEN "ValueError"
    ELSE IF file.targets = << >> THEN "ValueError"
    ELSE "none"

\* what a cell may hold: NULL, a text with an ASCII quote, a text with U+2019
CellValues == {None, Str(<<Apostrophe, 97>>), Str(<<8217, 97>>)}

\* an entry of the session log: an executed statement or a transaction call
Statement(op, column, rowid, cell) ==
    [op |-> op, column |-> column, rowid |-> rowid, value |-> cell]

\* the cursor.execute calls made so far
Executed == SelectSeq(session, LAMBDA entry : entry.op \in {"SELECT", "UPDATE"})

\* lines 226-234: the list updates _apply_updates builds from the rows it selected
pending_updates(column) ==
    LET rowids == SelectSeq([r \in 1..MaxRows |-> r],
                            LAMBDA r : /\ ~IsNone(tables[column][r])
                                       /\ normalise_quotes(str(tables[column][r]))
                                              # str(tables[column][r]))
    IN  [k \in DOMAIN rowids |->
            [rowid |-> rowids[k],
             converted |-> Str(normalise_quotes(str(tables[column][rowids[k]])))]]

\* runs against every table, with and without --commit, with and without a fault
InitCleanupRun ==
    /\ cleanup_config \in {[exists |-> TRUE, targets |-> targets] :
                             targets \in SeqsUpTo({Payload("ADMIN.METADATA_MAIN", column) :
                                                      column \in Columns},
                                                  MaxTargets) \ {<< >>}}
    /\ tables \in [Columns -> [1..MaxRows -> CellValues]]
    /\ fault \in 0..MaxFault
    /\ dry_run \in BOOLEAN
    /\ credentials = TRUE

\* runs that end before the first target: no file, no or bad targets, no credentials
InitCleanupError ==
    /\ \/ /\ cleanup_config \in
                {[exists |-> FALSE, targets |-> << >>], [exists |-> TRUE, targets |-> << >>],
                 [exists |-> TRUE, targets |-> <<Payload("ADMIN.METADATA_MAIN", NULL)>>],
                 [exists |-> TRUE, targets |-> <<Payload(NULL, "TITLE")>>]}
          /\ credentials = TRUE
       \/ /\ cleanup_config = [exists |-> TRUE,
                               targets |-> <<Payload("ADMIN.METADATA_MAIN", "TITLE")>>]
          /\ credentials = FALSE
    /\ tables = [column \in Columns |-> [r \in 1..MaxRows |-> Str(<<8217, 97>>)]]
    /\ fault = 0
    /\ dry_run \in BOOLEAN

CleanupInit ==
    /\ InitCleanupRun \/ InitCleanupError
    /\ committed = tables
    /\ session = << >>
    /\ updates = << >>
    /\ total_updates = 0
    /\ returned_total = NULL
    /\ raw_text = << >>
    /\ normalised = << >>
    /\ pc = "cleanup"
    /\ error = "none"
    /\ idx = 0
    /\ connected = FALSE
    /\ store = EmptyStore
    /\ csv = CsvFile(FALSE, FALSE, << >>)
    /\ options = DefaultOptions
    /\ today = date(Days[1])
    /\ configs = << >>
    /\ dir_created = FALSE
    /\ assembling = NoRow
    /\ source_citation_map = EmptyMap
    /\ bundle = NoRow
    /\ tree = NoRow
    /\ trace = << >>
    /\ events = << >>
    /\ written_files = << >>
    /\ built = << >>

\* what a cleanup run never touches
export_state == <<store, csv, options, today, configs, dir_created, frame, bundle, tree,
                  built, trace, events, written_files, raw_text, normalised>>

\* lines 352-362: the configuration is loaded and the connection opened
StartCleanup ==
    /\ pc = "cleanup"
    /\ IF ~cleanup_config.exists
       THEN error' = "FileNotFoundError" /\ pc' = "raised" /\ UNCHANGED <<connected, idx>>
       ELSE IF _load_targets_error(cleanup_config) # "none"
       THEN /\ error' = _load_targets_error(cleanup_config)
            /\ pc' = "raised"
            /\ UNCHANGED <<connected, idx>>
       ELSE IF ~credentials
       THEN error' = "EnvironmentError" /\ pc' = "raised" /\ UNCHANGED <<connected, idx>>
       ELSE connected' = TRUE /\ idx' = 1 /\ pc' = "target" /\ UNCHANGED error
    /\ UNCHANGED <<export_state, cleanup_config, tables, committed, fault, session, updates,
                   total_updates, returned_total, dry_run, credentials>>

\* lines 224-258 of _apply_updates for the target the loop is at: the SELECT,
\* the list of updates and, when there is nothing to execute, the return
SelectRows ==
    /\ pc = "target"
    /\ idx <= Len(cleanup_config.targets)
    /\ LET column == cleanup_config.targets[idx].column
       IN  /\ session' = Append(session, Statement("SELECT", column, 0, None))
           /\ IF fault = Len(Executed) + 1
              THEN /\ error' = "DatabaseError"
                   /\ pc' = "raised"
                   /\ connected' = FALSE
                   /\ tables' = committed
                   /\ UNCHANGED <<idx, updates>>
              ELSE IF pending_updates(column) = << >> \/ dry_run
              THEN /\ idx' = idx + 1
                   /\ UNCHANGED <<error, pc, connected, tables, updates>>
              ELSE /\ updates' = pending_updates(column)
                   /\ pc' = "update"
                   /\ UNCHANGED <<error, idx, connected, tables>>
    /\ UNCHANGED <<export_state, cleanup_config, committed, fault, total_updates,
                   returned_total, dry_run, credentials>>

\* the UPDATE loop with the connection left in autocommit mode
ExecuteUpdateAutocommit ==
    /\ pc = "update"
    /\ LET column == cleanup_config.targets[idx].column
           update == Head(updates)
       IN  /\ session' = Append(session, Statement("UPDATE", column, update.rowid,
                                                   update.converted))
           /\ IF fault = Len(Executed) + 1
              THEN /\ error' = "DatabaseError"
                   /\ pc' = "raised"
                   /\ connected' = FALSE
                   /\ tables' = committed
                   /\ UNCHANGED <<idx, updates, total_updates, committed>>
              ELSE /\ tables' = [tables EXCEPT ![column][update.rowid] = update.converted]
                   /\ committed' = tables'
                   /\ total_updates' = total_updates + 1
                   /\ updates' = Tail(updates)
                   /\ IF Tail(updates) = << >>
                      THEN idx' = idx + 1 /\ pc' = "target"
                      ELSE UNCHANGED <<idx, pc>>
                   /\ UNCHANGED <<error, connected>>
    /\ UNCHANGED <<export_state, cleanup_config, fault, returned_total, dry_run,
                   credentials>>

\* lines 260-268: one cursor.execute of the UPDATE loop; after the last one
\* _apply_updates returns and the for loop moves on
ExecuteUpdate ==
    /\ pc = "update"
    /\ LET column == cleanup_config.targets[idx].column
           update == Head(updates)
       IN  /\ session' = Append(session, Statement("UPDATE", column, update.rowid,
                                                   update.converted))
           /\ IF fault = Len(Executed) + 1
              THEN /\ error' = "DatabaseError"
                   /\ pc' = "raised"
                   /\ connected' = FALSE
                   /\ tables' = committed
                   /\ UNCHANGED <<idx, updates, total_updates, committed>>
              ELSE /\ tables' = [tables EXCEPT ![column][update.rowid] = update.converted]
                   /\ total_updates' = total_updates + 1
                   /\ updates' = Tail(updates)
                   /\ IF Tail(updates) = << >>
                      THEN idx' = idx + 1 /\ pc' = "target"
                      ELSE UNCHANGED <<idx, pc>>
                   /\ UNCHANGED <<error, connected, committed>>
    /\ UNCHANGED <<export_state, cleanup_config, fault, returned_total, dry_run,
                   credentials>>

\* lines 365-371: rollback or commit once the loop is over, then the return
FinishCleanup ==
    /\ pc = "target"
    /\ idx > Len(cleanup_config.targets)
    /\ IF dry_run
       THEN /\ session' = Append(session, Statement("ROLLBACK", NULL, 0, None))
            /\ tables' = committed
            /\ UNCHANGED committed
       ELSE /\ session' = Append(session, Statement("COMMIT", NULL, 0, None))
            /\ committed' = tables
            /\ UNCHANGED tables
    /\ connected' = FALSE
    /\ returned_total' = total_updates
    /\ pc' = "returned"
    /\ UNCHANGED <<export_state, cleanup_config, fault, updates, total_updates, error, idx,
                   dry_run, credentials>>

CleanupNext ==
    \/ StartCleanup
    \/ SelectRows
    \/ ExecuteUpdate
    \/ FinishCleanup

CleanupSpec == CleanupInit /\ [][CleanupNext]_vars

---------------------------------------------------------------------------
(* Vocabulary of the properties                                            *)

\* the calls fetch_metadata_bundle made for the config at position call
CallsOf(call) == SelectSeq(trace, LAMBDA e : e.call = call)

\* the calls of function fn made for the config at position call
CallsTo(call, fn) == SelectSeq(trace, LAMBDA e : e.call = call /\ e.fn = fn)

\* a bundle has come back from fetch_metadata_bundle for the current config
Assembled == bundle # NoRow /\ assembling = NoRow /\ pc \in {"build", "format", "raised"}

HasDuplicates(ids) == \E i, j \in DOMAIN ids : i # j /\ ids[i] = ids[j]

\* the citation identifiers a returned bundle refers to: each source's own
\* non-empty citation_id and the citation_id of every link row
ReferencedCitationIds(b) ==
    {b.sources[i].citation_id : i \in {j \in DOMAIN b.sources : Truthy(b.sources[j].citation_id)}}
    \cup
    UNION {{b.source_citations[s][i].citation_id : i \in DOMAIN b.source_citations[s]} :
               s \in DOMAIN b.source_citations}

---------------------------------------------------------------------------
(* C1: when the primary record of the identifier is missing, the assembly  *)
(* fails at once with the not-found error: the failed fetch_main_record is *)
(* the last lookup of the run, the partial bundle is dropped and no bundle *)
(* is returned for that config; and the not-found error has no other cause.*)

C1_NotFoundFailsImmediately ==
    /\ \A i \in DOMAIN trace :
          (trace[i].fn = "fetch_main_record"
             /\ fetch_main_record(store, trace[i].arg[1]) = NoRow)
          => /\ i = Len(trace)
             /\ pc = "raised" /\ error = "LookupError"
             /\ assembling = NoRow
             /\ Len(SelectSeq(events, LAMBDA e : e[1] = "assemble")) < trace[i].call
    /\ error = "LookupError"
          => /\ trace # << >>
             /\ trace[Len(trace)].fn = "fetch_main_record"
             /\ fetch_main_record(store, trace[Len(trace)].arg[1]) = NoRow

C1_Witness ==
    /\ error = "LookupError"
    /\ trace = <<[call |-> 1, fn |-> "fetch_main_record", arg |-> <<"M2">>, executed |-> TRUE]>>
    /\ bundle = NoRow

---------------------------------------------------------------------------
(* C2: within one assembly the lookups are issued in dependency order:     *)
(* the primary record first, then group and main citation, then the        *)
(* contact batch, then attributes and keywords, then sources, then the     *)
(* source-citation links, and the citation batch last; every lookup comes  *)
(* after the lookup whose result it needs, and each kind of lookup is      *)
(* issued at most once per identifier.                                     *)

LookupStage(fn) ==
    CASE fn = "fetch_main_record" -> 1
      [] fn \in {"fetch_group", "fetch_citation"} -> 2
      [] fn = "fetch_contacts_for_ids" -> 3
      [] fn \in {"fetch_attributes", "fetch_keywords"} -> 4
      [] fn = "fetch_sources" -> 5
      [] fn = "fetch_source_citations" -> 6
      [] fn = "fetch_citations_for_ids" -> 7

\* the lookup whose result decides whether and with what fn is called
NeededBy(fn) ==
    CASE fn = "fetch_main_record" -> "fetch_main_record"
      [] fn = "fetch_contacts_for_ids" -> "fetch_group"
      [] fn = "fetch_source_citations" -> "fetch_sources"
      [] fn = "fetch_citations_for_ids" -> "fetch_source_citations"
      [] OTHER -> "fetch_main_record"

C2_LookupsInDependencyOrder ==
    \A call \in 1..idx :
        LET calls == CallsOf(call)
        IN  /\ calls # << >> => calls[1].fn = "fetch_main_record"
            /\ \A i, j \in DOMAIN calls :
                  i < j => /\ LookupStage(calls[i].fn) <= LookupStage(calls[j].fn)
                           /\ calls[i].fn # calls[j].fn
            /\ \A j \in DOMAIN calls :
                  \E i \in 1..j : calls[i].fn = NeededBy(calls[j].fn)
            /\ \A i \in DOMAIN calls :
                  calls[i].fn \in {"fetch_main_record", "fetch_attributes", "fetch_keywords",
                                   "fetch_sources"}
                  => calls[i].arg = <<configs[call].metadata_id>>

C2_Witness ==
    /\ Assembled
    /\ [i \in DOMAIN trace |-> trace[i].fn] =
          <<"fetch_main_record", "fetch_group", "fetch_citation", "fetch_contacts_for_ids",
            "fetch_attributes", "fetch_keywords", "fetch_sources", "fetch_source_citations",
            "fetch_citations_for_ids">>

---------------------------------------------------------------------------
(* C3: contact deduplication.  The contact batch is called at most once    *)
(* per identifier, with the group's contact_id and metadata_contact_id     *)
(* (those that are set) in first-seen order and without repetition.  When  *)
(* both fields name the same contact, the one call carries that identifier *)
(* exactly once and group_contact and metadata_contact are the same record.*)

C3_ContactDeduplication ==
    /\ \A call \in 1..idx : Len(CallsTo(call, "fetch_contacts_for_ids")) <= 1
    /\ Assembled =>
          LET group == bundle.group
              calls == CallsTo(idx, "fetch_contacts_for_ids")
              first == IF group = NoRow THEN NULL ELSE group.contact_id
              second == IF group = NoRow THEN NULL ELSE group.metadata_contact_id
          IN  /\ \A i \in DOMAIN calls :
                    /\ ~HasDuplicates(calls[i].arg)
                    /\ calls[i].arg =
                          (IF first # NULL /\ second # NULL /\ first # second
                           THEN <<first, second>>
                           ELSE IF first # NULL THEN <<first>> ELSE <<second>>)
              /\ (first = NULL /\ second = NULL) <=> calls = << >>
              /\ (first # NULL /\ first = second)
                    => /\ Len(calls) = 1
                       /\ calls[1].arg = <<first>>
                       /\ calls[1].executed
                       /\ bundle.group_contact = bundle.metadata_contact
                       /\ bundle.group_contact = store.metadata_contacts[first]

C3_Witness ==
    /\ Assembled
    /\ bundle.group # NoRow
    /\ bundle.group.contact_id = "K1"
    /\ bundle.group.metadata_contact_id = "K1"
    /\ bundle.group_contact = ContactRow("K1")
    /\ bundle.metadata_contact = ContactRow("K1")
    /\ Len(CallsTo(idx, "fetch_contacts_for_ids")) = 1

---------------------------------------------------------------------------
(* C4: a batched lookup called with no identifiers returns the empty       *)
(* mapping and executes no query; a call executes a query exactly when it  *)
(* has identifiers.  So an assembly whose group is absent or names no      *)
(* contact executes no contact query, and one without sources executes no  *)
(* source-citation and no citation-batch query.                            *)

BatchedLookups == {"fetch_contacts_for_ids", "fetch_source_citations", "fetch_citations_for_ids"}

NoQuery(call, fn) == \A i \in DOMAIN CallsTo(call, fn) : ~CallsTo(call, fn)[i].executed

C4_EmptyBatchIssuesNoQuery ==
    /\ fetch_contacts_for_ids(store, << >>) = [rows |-> EmptyMap, executed |-> FALSE]
    /\ fetch_source_citations(store, << >>) = [rows |-> EmptyMap, executed |-> FALSE]
    /\ fetch_citations_for_ids(store, << >>) = [rows |-> EmptyMap, executed |-> FALSE]
    /\ \A i \in DOMAIN trace :
          trace[i].fn \in BatchedLookups => (trace[i].executed <=> trace[i].arg # << >>)
    /\ Assembled =>
          /\ (bundle.group = NoRow
                \/ (bundle.group.contact_id = NULL /\ bundle.group.metadata_contact_id = NULL))
             => /\ NoQuery(idx, "fetch_contacts_for_ids")
                /\ bundle.group_contact = NoRow
                /\ bundle.metadata_contact = NoRow
          /\ bundle.sources = << >>
             => /\ NoQuery(idx, "fetch_source_citations")
                /\ NoQuery(idx, "fetch_citations_for_ids")
                /\ bundle.source_citations = EmptyMap
                /\ bundle.citation_lookup = EmptyMap
          /\ ReferencedCitationIds(bundle) = {}
             => /\ NoQuery(idx, "fetch_citations_for_ids")
                /\ bundle.citation_lookup = EmptyMap

\* sources exist but name no citation: the citation batch is called with no
\* identifiers, and a group is absent while the record names one
C4_Witness ==
    /\ Assembled
    /\ bundle.sources # << >>
    /\ CallsTo(idx, "fetch_citations_for_ids") =
          <<[call |-> idx, fn |-> "fetch_citations_for_ids", arg |-> << >>,
             executed |-> FALSE]>>
    /\ bundle.citation_lookup = EmptyMap
    /\ bundle.group = NoRow

---------------------------------------------------------------------------
(* C5: the bundle invariant on citation_lookup.                            *)
(* C5 as stated: after every successful assembly citation_lookup has an    *)
(* entry for every citation identifier its sources and link rows refer to. *)

C5_LookupHoldsEveryReferencedCitation ==
    Assembled => ReferencedCitationIds(bundle) \subseteq DOMAIN bundle.citation_lookup

(* C5 as the code has it: citation_lookup has an entry for exactly those   *)
(* referenced citation identifiers that have a record in the citation      *)
(* table, each mapped to that record; a referenced identifier without a    *)
(* record has no entry, and nothing is put in its place.                   *)

C5_LookupHoldsEveryResolvableCitation ==
    Assembled =>
        /\ DOMAIN bundle.citation_lookup =
              {c \in ReferencedCitationIds(bundle) : store.metadata_citations[c] # NoRow}
        /\ \A c \in DOMAIN bundle.citation_lookup :
              bundle.citation_lookup[c] = store.metadata_citations[c]

\* a link row's citation resolves while a source's own citation has no record
C5_Witness ==
    /\ Assembled
    /\ ReferencedCitationIds(bundle) = {"C1", "C3"}
    /\ bundle.sources = <<SourceRow("S1", "C3")>>
    /\ DOMAIN bundle.citation_lookup = {"C1"}

---------------------------------------------------------------------------
(* C6: the batches of the sources step.                                    *)

SourceBatchIsOneQuery(b, call) ==
    /\ Len(CallsTo(call, "fetch_source_citations")) = 1
    /\ CallsTo(call, "fetch_source_citations")[1].executed
    /\ CallsTo(call, "fetch_source_citations")[1].arg =
          [i \in DOMAIN b.sources |-> b.sources[i].source_id]

CitationBatchCarriesTheUnion(b, call) ==
    /\ Len(CallsTo(call, "fetch_citations_for_ids")) = 1
    /\ LET ids == CallsTo(call, "fetch_citations_for_ids")[1].arg
       IN  /\ Range(ids) = ReferencedCitationIds(b)
           /\ ~HasDuplicates(ids)
           /\ (Truthy(b.main.citation_id) /\ b.main.citation_id \in Range(ids))
                 => b.main.citation_id \in ReferencedCitationIds(b)

(* C6 as stated: with sources included and at least one source, the        *)
(* assembly executes one source-citation query keyed by all source ids and *)
(* exactly one citation batch query, whose identifiers are exactly the     *)
(* referenced citation identifiers, each once; the main record's citation  *)
(* is among them only if a source or link row refers to it.                *)

C6_OneCitationBatchQuery ==
    (Assembled /\ config.include_sources /\ bundle.sources # << >>)
    => /\ SourceBatchIsOneQuery(bundle, idx)
       /\ CitationBatchCarriesTheUnion(bundle, idx)
       /\ CallsTo(idx, "fetch_citations_for_ids")[1].executed

(* C6 as the code has it: one source-citation query keyed by all source    *)
(* ids, and one citation batch call carrying exactly the referenced        *)
(* identifiers, each once; that call executes one query when there is at   *)
(* least one such identifier and none when there is none.                  *)

C6_OneCitationBatchQueryUnlessEmpty ==
    (Assembled /\ config.include_sources /\ bundle.sources # << >>)
    => /\ SourceBatchIsOneQuery(bundle, idx)
       /\ CitationBatchCarriesTheUnion(bundle, idx)
       /\ CallsTo(idx, "fetch_citations_for_ids")[1].executed
             <=> ReferencedCitationIds(bundle) # {}

\* two sources refer to C2 and C3; the main record's citation C1 is referred
\* to by no source and no link row, and is not in the batch
C6_Witness ==
    /\ Assembled
    /\ config.include_sources
    /\ Len(bundle.sources) = 2
    /\ bundle.main.citation_id = "C1"
    /\ CallsTo(idx, "fetch_citations_for_ids") =
          <<[call |-> idx, fn |-> "fetch_citations_for_ids", arg |-> <<"C2", "C3">>,
             executed |-> TRUE]>>

---------------------------------------------------------------------------
(* C7: the inclusion flags gate the data and the lookups.  Without         *)
(* include_sources the bundle has no sources, no source citations and an   *)
(* empty citation lookup, and none of the three source lookups is called;  *)
(* without include_keywords it has no keywords and the keyword lookup is   *)
(* not called; with a flag set the lookup is called and its rows are in    *)
(* the bundle; the attributes are fetched whatever the flags.              *)

C7_FlagsGateDataAndLookups ==
    Assembled =>
        /\ IF config.include_sources
           THEN /\ Len(CallsTo(idx, "fetch_sources")) = 1
                /\ bundle.sources = fetch_sources(store, bundle.metadata_id)
           ELSE /\ bundle.sources = << >>
                /\ bundle.source_citations = EmptyMap
                /\ bundle.citation_lookup = EmptyMap
                /\ \A fn \in {"fetch_sources", "fetch_source_citations",
                              "fetch_citations_for_ids"} : CallsTo(idx, fn) = << >>
        /\ IF config.include_keywords
           THEN /\ Len(CallsTo(idx, "fetch_keywords")) = 1
                /\ bundle.keywords = fetch_keywords(store, bundle.metadata_id)
           ELSE /\ bundle.keywords = << >>
                /\ CallsTo(idx, "fetch_keywords") = << >>
        /\ Len(CallsTo(idx, "fetch_attributes")) = 1
        /\ bundle.attributes = fetch_attributes(store, bundle.metadata_id)

\* both flags off for a record that has keywords, sources and link rows
C7_Witness ==
    /\ Assembled
    /\ ~config.include_sources
    /\ ~config.include_keywords
    /\ fetch_keywords(store, bundle.metadata_id) # << >>
    /\ fetch_sources(store, bundle.metadata_id) # << >>
    /\ bundle.keywords = << >>
    /\ bundle.sources = << >>
    /\ bundle.attributes # << >>

---------------------------------------------------------------------------
(* The export driver's claims.  export_metadata_records has ended when it  *)
(* has returned its list or an exception has left it.                      *)

Finished == pc \in {"raised", "returned"}

\* the run got as far as the loop over the configs
LoopEntered == configs # << >> /\ credentials

HasPrimaryRecord(i) == fetch_main_record(store, configs[i].metadata_id) # NoRow

\* the driver's steps for the first n configs, kinds being the steps taken for
\* each config in turn
StepsFor(n, kinds) ==
    [j \in 1..(n * Len(kinds)) |->
        <<kinds[((j - 1) % Len(kinds)) + 1],
          configs[((j - 1) \div Len(kinds)) + 1].metadata_id>>]

(* C8: a non-dry-run export over identifiers that all have a primary       *)
(* record takes them in input order (assemble, build, write), writes one   *)
(* document <identifier>.xml per configured identifier into the output     *)
(* directory, and returns the written paths in input order, one per        *)
(* configured identifier.                                                  *)

C8_ExportWritesOneDocumentPerIdentifier ==
    (Finished /\ LoopEntered /\ ~dry_run /\ \A i \in DOMAIN configs : HasPrimaryRecord(i))
    => /\ pc = "returned"
       /\ error = "none"
       /\ events = StepsFor(Len(configs), <<"assemble", "build", "write">>)
       /\ written_files = [i \in DOMAIN configs |-> output_path(configs[i].metadata_id)]

(* C9: a dry run assembles and builds every configured identifier, in      *)
(* input order, writes nothing, and returns an empty list of written paths.*)

C9_DryRunAssemblesAndBuildsEveryIdentifier ==
    (Finished /\ LoopEntered /\ dry_run /\ \A i \in DOMAIN configs : HasPrimaryRecord(i))
    => /\ pc = "returned"
       /\ error = "none"
       /\ events = StepsFor(Len(configs), <<"assemble", "build">>)
       /\ written_files = << >>

(* C10: the driver is fail-fast.  When the k-th configured identifier is   *)
(* the first without a primary record, the not-found error leaves the      *)
(* export call, the identifiers before it have been processed, none after  *)
(* it is assembled, built or written, and no list is returned.             *)

C10_NotFoundAbortsTheBatch ==
    \A k \in DOMAIN configs :
        (Finished /\ LoopEntered /\ ~HasPrimaryRecord(k)
           /\ \A i \in 1..(k - 1) : HasPrimaryRecord(i))
        => /\ pc = "raised"
           /\ error = "LookupError"
           /\ idx = k
           /\ \A i \in DOMAIN trace : trace[i].call <= k
           /\ Len(events) = Len(SelectSeq(events, LAMBDA e : e[1] \in {"assemble", "build"}))
                            + Len(written_files)
           /\ Len(SelectSeq(events, LAMBDA e : e[1] = "assemble")) = k - 1

---------------------------------------------------------------------------
(* C11: a configuration error (the file is missing, it has no header line, *)
(* a data row has an empty identifier, or no data row is left once the     *)
(* comment lines are ignored) is fatal before any export begins: the run   *)
(* ends in load_configurations with that error, the output directory is    *)
(* not created, no connection is opened and nothing is assembled or built. *)
(* A file without such an error loads as its data rows and raises none.    *)

LinesOf(file, kind) == SelectSeq(file.lines, LAMBDA line : line.kind = kind)

ConfigurationErrorIn(file) ==
    \/ ~file.exists
    \/ LinesOf(file, "header") = << >>
    \/ \E i \in DOMAIN LinesOf(file, "data") : LinesOf(file, "data")[i].metadata_id = ""
    \/ LinesOf(file, "data") = << >>

ConfigurationErrors == {"FileNotFoundError", "ValueError"}

C11_ConfigurationErrorIsFatalBeforeExport ==
    IF ConfigurationErrorIn(csv)
    THEN /\ pc \in {"load", "raised"}
         /\ pc = "raised" => error \in ConfigurationErrors
         /\ ~dir_created
         /\ ~connected
         /\ configs = << >> /\ idx = 0
         /\ trace = << >> /\ events = << >> /\ built = << >> /\ written_files = << >>
         /\ bundle = NoRow /\ tree = NoRow
    ELSE /\ error \notin ConfigurationErrors
         /\ pc # "load" =>
               configs = [i \in DOMAIN LinesOf(csv, "data") |->
                            MetadataExportConfig(LinesOf(csv, "data")[i].metadata_id,
                                                 LinesOf(csv, "data")[i].include_sources,
                                                 LinesOf(csv, "data")[i].include_keywords)]

\* a header line and a comment line, and no data row
C11_Witness ==
    /\ csv.exists
    /\ csv.lines = <<HeaderLine, CommentLine>>
    /\ pc = "raised"
    /\ error = "ValueError"
    /\ ~dir_created

---------------------------------------------------------------------------
(* Vocabulary of the builder's properties                                  *)

\* the children of element e with the tag, in document order
Children(e, tag) == SelectSeq(e.children, LAMBDA child : child.tag = tag)

\* the tags of the children of e, in document order
Tags(e) == [i \in DOMAIN e.children |-> e.children[i].tag]

\* the first element reached from e down the path of tags; NoRow when there is none
RECURSIVE Find(_, _)
Find(e, path) ==
    IF path = << >> THEN e
    ELSE IF Children(e, Head(path)) = << >> THEN NoRow
    ELSE Find(Children(e, Head(path))[1], Tail(path))

\* the text of the gco:CharacterString in element e
StringIn(e) == Children(e, "gco:CharacterString")[1].text

\* a builder run has built its bundle at least once
Built == pc = "builder" /\ built # << >>

\* the tree with its date stamp element taken out
WithoutDateStamp(t) ==
    [t EXCEPT !.children = SelectSeq(@, LAMBDA child : child.tag # "gmd:dateStamp")]

DateStampOf(t) == Find(t, <<"gmd:dateStamp", "gco:Date">>).text

---------------------------------------------------------------------------
(* C12: build is deterministic and pure.  Any two builds of the same       *)
(* bundle with the same options agree everywhere outside the date stamp    *)
(* element, whatever the calendar date of each build; with an explicit     *)
(* date stamp, or on the same day, they are the same tree; with no date    *)
(* stamp set, the date stamp element carries the day of the build; and a   *)
(* build changes neither the bundle nor the options it was given.          *)

C12_BuildIsDeterministicAndPure ==
    /\ [](\A i, j \in DOMAIN built :
            /\ WithoutDateStamp(built[i].tree) = WithoutDateStamp(built[j].tree)
            /\ ~IsNone(options.date_stamp) => built[i].tree = built[j].tree
            /\ built[i].today = built[j].today => built[i].tree = built[j].tree
            /\ IsNone(options.date_stamp)
                  => DateStampOf(built[i].tree) = isoformat(built[i].today).text)
    /\ [][bundle' = bundle /\ options' = options]_vars

\* two builds a day apart of a record with a lineage source, under an explicit
\* date stamp
C12_Witness ==
    /\ Built
    /\ Len(built) = 2
    /\ built[1].today # built[2].today
    /\ ~IsNone(options.date_stamp)
    /\ bundle.sources # << >>
    /\ built[1].tree = built[2].tree
    /\ DateStampOf(tree) = isoformat(options.date_stamp).text

---------------------------------------------------------------------------
(* C13: identifiers are independent.  The bundle assembled and the         *)
(* document built for a configured identifier are those its store records  *)
(* and its own flags give, wherever it stands in the configuration: every  *)
(* identifier whose record exists, and whose predecessors' records exist,  *)
(* is assembled and built, its bundle is the one an assembly of it alone   *)
(* gives and its document the build of that bundle.                        *)

\* the bundle of the identifier of cfg assembled from the store on its own
BundleOfItsOwn(connection, cfg) ==
    LET main == fetch_main_record(connection, cfg.metadata_id)
        group == IF Truthy(main.group_id) THEN fetch_group(connection, main.group_id)
                 ELSE NoRow
        contact_lookup ==
            fetch_contacts_for_ids(connection, UniqueIds(ContactIdsOf(group))).rows
        sources == IF cfg.include_sources THEN fetch_sources(connection, cfg.metadata_id)
                   ELSE << >>
        links == fetch_source_citations(
                    connection, [i \in DOMAIN sources |-> sources[i].source_id]).rows
    IN  [metadata_id |-> cfg.metadata_id,
         main |-> main,
         group |-> group,
         citation |-> IF Truthy(main.citation_id)
                      THEN fetch_citation(connection, main.citation_id) ELSE NoRow,
         group_contact |->
            IF group # NoRow /\ group.contact_id # NULL
            THEN ContactOf(contact_lookup, group.contact_id) ELSE NoRow,
         metadata_contact |->
            IF group # NoRow /\ group.metadata_contact_id # NULL
            THEN ContactOf(contact_lookup, group.metadata_contact_id) ELSE NoRow,
         attributes |-> fetch_attributes(connection, cfg.metadata_id),
         keywords |-> IF cfg.include_keywords
                      THEN fetch_keywords(connection, cfg.metadata_id) ELSE << >>,
         sources |-> sources,
         source_citations |-> links,
         citation_lookup |->
            fetch_citations_for_ids(
                connection, SortedIds(LinkedCitationIds(sources, links))).rows]

---------------------------------------------------------------------------
(* C14: the purpose omission law.  The identification block has at most    *)
(* one purpose element.  It carries group.purpose when the group is        *)
(* present with a non-empty purpose; otherwise it carries                  *)
(* main.supplemental_information when that is non-empty; otherwise there   *)
(* is no purpose element.  The two texts are never both emitted.           *)

\* the MD_DataIdentification element of a tree
Identification(t) == Find(t, <<"gmd:identificationInfo", "gmd:MD_DataIdentification">>)

\* a text value that is neither NULL nor the empty string
NonEmpty(value) == ~IsNone(value) /\ value.text # NoText

C14_PurposeOmissionLaw ==
    Built =>
        LET purposes == Children(Identification(tree), "gmd:purpose")
            group_purpose == IF bundle.group = NoRow THEN None
                             ELSE Get(bundle.group, "purpose")
            supplemental == Get(bundle.main, "supplemental_information")
        IN  /\ Len(purposes) <= 1
            /\ IF NonEmpty(group_purpose)
               THEN Len(purposes) = 1 /\ StringIn(purposes[1]) = group_purpose.text
               ELSE IF NonEmpty(supplemental)
               THEN Len(purposes) = 1 /\ StringIn(purposes[1]) = supplemental.text
               ELSE purposes = << >>

\* group purpose and supplemental information both there: the group's is emitted
C14_Witness ==
    /\ Built
    /\ bundle.group # NoRow
    /\ Get(bundle.group, "purpose") = Str(<<"purpose">>)
    /\ Get(bundle.main, "supplemental_information") = Str(<<"supplement">>)
    /\ Len(Children(Identification(tree), "gmd:purpose")) = 1
    /\ StringIn(Children(Identification(tree), "gmd:purpose")[1]) = <<"purpose">>

---------------------------------------------------------------------------
(* C15: the bounding-box rule.  The bounding-box block is emitted only if  *)
(* at least one of the four bounding coordinates is non-null.  When it is  *)
(* emitted, each of west, east, south and north is present exactly when    *)
(* its own value is non-null, in that order; a null coordinate does not    *)
(* suppress the others.  When all four are null there is no such block.    *)

\* the EX_GeographicBoundingBox element of a tree; NoRow when there is none
BoundingBox(t) ==
    Find(Identification(t), <<"gmd:extent", "gmd:EX_Extent", "gmd:geographicElement",
                              "gmd:EX_GeographicBoundingBox">>)

\* the coordinate elements the rule asks for, with the column each comes from
CoordinateColumns ==
    <<<<"gmd:westBoundLongitude", "west_bounding_coordinate">>,
      <<"gmd:eastBoundLongitude", "east_bounding_coordinate">>,
      <<"gmd:southBoundLatitude", "south_bounding_coordinate">>,
      <<"gmd:northBoundLatitude", "north_bounding_coordinate">>>>

C15_BoundingBoxRule ==
    Built =>
        LET given == SelectSeq(CoordinateColumns,
                               LAMBDA column : ~IsNone(Get(bundle.main, column[2])))
        IN  IF given = << >>
            THEN BoundingBox(tree) = NoRow
            ELSE /\ BoundingBox(tree) # NoRow
                 /\ Tags(BoundingBox(tree)) = [i \in DOMAIN given |-> given[i][1]]
                 /\ \A i \in DOMAIN given :
                        BoundingBox(tree).children[i].children[1].text
                            = Get(bundle.main, given[i][2]).text

\* west and south are null, east is zero: the box holds east and north only
C15_Witness ==
    /\ Built
    /\ IsNone(Get(bundle.main, "west_bounding_coordinate"))
    /\ IsNone(Get(bundle.main, "south_bounding_coordinate"))
    /\ Get(bundle.main, "east_bounding_coordinate") = Num(<<"0">>)
    /\ BoundingBox(tree) # NoRow
    /\ Tags(BoundingBox(tree)) = <<"gmd:eastBoundLongitude", "gmd:northBoundLatitude">>

---------------------------------------------------------------------------
(* C16: the date formatting rule.  A null value yields no output; a native *)
(* date renders as its ISO calendar date; a native date-time renders as    *)
(* the date portion only, the time of day dropped; any other non-null      *)
(* value is stringified and trimmed, and yields no output when the trimmed *)
(* text is empty.                                                          *)

\* what the rule asks _format_date to return for a value
DateRule(value) ==
    CASE value.type = "none" -> None
      [] value.type = "date" -> Str(<<value.text[1]>>)
      [] value.type = "datetime" -> Str(<<value.text[1]>>)
      [] OTHER -> IF strip(str(value)) = NoText THEN None ELSE Str(strip(str(value)))

\* the date-like values a built bundle and its options carry
DateValuesOf(b, opts) ==
    {Get(b.main, "temporal_date_from"), Get(b.main, "temporal_date_to"), opts.date_stamp}
    \cup (IF b.citation = NoRow THEN {} ELSE {Get(b.citation, "citation_pubdate")})

C16_DateFormattingRule ==
    Built => \A value \in DateValuesOf(bundle, options) : _format_date(value) = DateRule(value)

---------------------------------------------------------------------------
(* C17: the date formatting rule is applied identically in every           *)
(* date-bearing location.  For every date-like value, the text (or the     *)
(* absence of output) produced when it is the main citation publication    *)
(* date, a lineage citation publication date, an extent temporal bound or  *)
(* the date stamp override is the rule's result for that value.            *)

\* what an element shows of a date, by its CharacterString or by its own
\* text: None when the element is not there
ShownString(e) == IF e = NoRow THEN None ELSE Str(StringIn(e))

ShownText(e) == IF e = NoRow THEN None ELSE Str(e.text)

\* the date under a CI_Citation element
PubDateIn(ci_citation) ==
    ShownString(Find(ci_citation, <<"gmd:date", "gmd:CI_Date", "gmd:date">>))

MainPubDate(t) ==
    PubDateIn(Find(Identification(t), <<"gmd:citation", "gmd:CI_Citation">>))

\* the publication date under the first sourceCitation of the first source
LineagePubDate(t) ==
    PubDateIn(Find(t, <<"gmd:dataQualityInfo", "gmd:DQ_DataQuality", "gmd:lineage",
                        "gmd:LI_Lineage", "gmd:source", "gmd:LI_Source",
                        "gmd:sourceCitation", "gmd:CI_Citation">>))

TemporalBegin(t) ==
    ShownText(Find(Identification(t), <<"gmd:extent", "gmd:EX_Extent", "gmd:temporalElement",
                                        "gmd:EX_TemporalExtent", "gml:TimePeriod",
                                        "gml:beginPosition">>))

\* a bundle whose first source names one citation the lookup resolves
HasLineageCitation(b) ==
    /\ b.sources # << >>
    /\ source_linked_citation_ids(b, b.sources[1]) # << >>
    /\ source_linked_citation_ids(b, b.sources[1])[1] \in DOMAIN b.citation_lookup

LineageCitationOf(b) == b.citation_lookup[source_linked_citation_ids(b, b.sources[1])[1]]

C17_DateRuleInEveryLocation ==
    Built =>
        /\ bundle.citation # NoRow =>
               MainPubDate(tree) = DateRule(Get(bundle.citation, "citation_pubdate"))
        /\ HasLineageCitation(bundle) =>
               LineagePubDate(tree)
                   = DateRule(Get(LineageCitationOf(bundle), "citation_pubdate"))
        /\ BoundingBox(tree) # NoRow =>
               TemporalBegin(tree) = DateRule(Get(bundle.main, "temporal_date_from"))
        /\ ~IsNone(options.date_stamp) =>
               Str(DateStampOf(tree)) = DateRule(options.date_stamp)

---------------------------------------------------------------------------
(* C18: keyword grouping.  The output has exactly one descriptive-keyword  *)
(* block per distinct keyword type of the bundle, where two types are the  *)
(* same when they agree after a null type is read as the empty text and    *)
(* leading and trailing blanks are dropped.  Blocks come in first-seen     *)
(* type order, each block lists its keywords as separate children in input *)
(* order, and every keyword of the bundle is in exactly one block.         *)

\* the descriptive-keyword blocks of a tree, in document order
KeywordBlocks(t) == Children(Identification(t), "gmd:descriptiveKeywords")

\* the keyword texts a block lists, in document order
ListedIn(block) ==
    LET listed == Children(Find(block, <<"gmd:MD_Keywords">>), "gmd:keyword")
    IN  [k \in DOMAIN listed |-> StringIn(listed[k])]

\* the keyword type as the column holds it
RawType(keyword) == Get(keyword, "keyword_type")

\* the keyword type with null read as empty and the blanks around it dropped
TrimmedType(keyword) ==
    IF IsNone(Get(keyword, "keyword_type")) THEN NoText
    ELSE strip(Get(keyword, "keyword_type").text)

RawTypes(keywords) == [i \in DOMAIN keywords |-> RawType(keywords[i])]

TrimmedTypes(keywords) == [i \in DOMAIN keywords |-> TrimmedType(keywords[i])]

\* type[i] being the type of keywords[i]: the g-th block lists, in input
\* order, the keywords of the g-th type first seen in the bundle, and there
\* are as many blocks as types
GroupedByType(t, keywords, type) ==
    LET types == {type[i] : i \in DOMAIN keywords}
        FirstSeen(T) == CHOOSE i \in DOMAIN keywords :
                            /\ type[i] = T
                            /\ \A j \in 1..(i - 1) : type[j] # T
        Rank(T) == Cardinality({U \in types : FirstSeen(U) <= FirstSeen(T)})
        KeywordsOf(T) ==
            LET of == {i \in DOMAIN keywords : type[i] = T}
                Nth(k) == CHOOSE i \in of : Cardinality({j \in of : j <= i}) = k
            IN  [k \in 1..Cardinality(of) |-> keywords[Nth(k)].keyword.text]
    IN  /\ Len(KeywordBlocks(t)) = Cardinality(types)
        /\ \A T \in types : /\ Rank(T) \in DOMAIN KeywordBlocks(t)
                            /\ ListedIn(KeywordBlocks(t)[Rank(T)]) = KeywordsOf(T)

C18_KeywordGrouping == Built => GroupedByType(tree, bundle.keywords, TrimmedTypes(bundle.keywords))

\* the claim with the types compared as the columns hold them
C18_OneBlockPerRawType == Built => GroupedByType(tree, bundle.keywords, RawTypes(bundle.keywords))

\* "theme", "place" and " theme": two blocks, the first with both theme keywords
C18_Witness ==
    /\ Built
    /\ Len(bundle.keywords) = 3
    /\ RawType(bundle.keywords[1]) = Str(<<"theme">>)
    /\ RawType(bundle.keywords[2]) = Str(<<"place">>)
    /\ RawType(bundle.keywords[3]) = Str(<<" ", "theme">>)
    /\ bundle.keywords[1].keyword # bundle.keywords[3].keyword
    /\ Len(KeywordBlocks(tree)) = 2
    /\ ListedIn(KeywordBlocks(tree)[1])
           = <<bundle.keywords[1].keyword.text, bundle.keywords[3].keyword.text>>
    /\ ListedIn(KeywordBlocks(tree)[2]) = <<bundle.keywords[2].keyword.text>>

---------------------------------------------------------------------------
(* C19: lineage with a dangling citation.  For every source of the bundle  *)
(* one lineage source block is emitted, in bundle order.  A citation       *)
(* identifier named by the source or by one of its link rows that the      *)
(* citation lookup lacks produces no sourceCitation sub-element and raises *)
(* no error; the source's own block and the citations that do resolve are  *)
(* still emitted.                                                          *)

\* the lineage source blocks of a tree, in document order
SourceBlocks(t) ==
    Children(Find(t, <<"gmd:dataQualityInfo", "gmd:DQ_DataQuality", "gmd:lineage",
                       "gmd:LI_Lineage">>), "gmd:source")

\* the sourceCitation elements of one source block
SourceCitationsIn(block) == Children(Find(block, <<"gmd:LI_Source">>), "gmd:sourceCitation")

\* the title of the citation a sourceCitation element holds
CitedTitle(source_citation) ==
    StringIn(Find(source_citation, <<"gmd:CI_Citation", "gmd:title">>))

\* the citation identifiers a source names: its own, then those of its link rows
NamedBy(b, source) ==
    (IF source.citation_id = NULL THEN << >> ELSE <<source.citation_id>>)
    \o (IF source.source_id \in DOMAIN b.source_citations
        THEN [i \in DOMAIN b.source_citations[source.source_id] |->
                b.source_citations[source.source_id][i].citation_id]
        ELSE << >>)

Dangling(b, citation_id) == citation_id \notin DOMAIN b.citation_lookup

C19_DanglingCitationIsSkipped ==
    Built =>
        /\ error = "none"
        /\ Len(SourceBlocks(tree)) = Len(bundle.sources)
        /\ \A i \in DOMAIN bundle.sources :
               LET resolved == SelectSeq(NamedBy(bundle, bundle.sources[i]),
                                         LAMBDA c : ~Dangling(bundle, c))
                   cited == SourceCitationsIn(SourceBlocks(tree)[i])
               IN  /\ Len(cited) = Len(resolved)
                   /\ \A k \in DOMAIN cited :
                          CitedTitle(cited[k]) = Get(bundle.citation_lookup[resolved[k]],
                                                     "citation_title").text

\* a source whose own citation dangles while a linked one resolves
C19_Witness ==
    /\ Built
    /\ error = "none"
    /\ bundle.sources # << >>
    /\ bundle.sources[1].citation_id = "C3"
    /\ Dangling(bundle, "C3")
    /\ NamedBy(bundle, bundle.sources[1]) = <<"C3", "C1", "C2">>
    /\ ~Dangling(bundle, "C1")
    /\ Len(SourceCitationsIn(SourceBlocks(tree)[1])) = 2

---------------------------------------------------------------------------
(* C20: for each source, citation references are emitted for the union of  *)
(* the source's own citation identifier and the citation identifiers of    *)
(* its link rows: each distinct resolvable citation identifier yields      *)
(* exactly one sourceCitation element under that source, also when the     *)
(* source's own citation identifier is repeated in its link rows.          *)

\* the distinct citation identifiers a source names that the lookup resolves
ResolvableOf(b, source) ==
    {c \in {NamedBy(b, source)[k] : k \in DOMAIN NamedBy(b, source)} : ~Dangling(b, c)}

\* how many sourceCitation elements of a source block hold citation c of bundle b
TimesCited(b, block, c) ==
    Cardinality({k \in DOMAIN SourceCitationsIn(block) :
                    CitedTitle(SourceCitationsIn(block)[k])
                        = Get(b.citation_lookup[c], "citation_title").text})

C20_OneSourceCitationPerCitation ==
    Built =>
        \A i \in DOMAIN bundle.sources :
            /\ Len(SourceCitationsIn(SourceBlocks(tree)[i]))
                   = Cardinality(ResolvableOf(bundle, bundle.sources[i]))
            /\ \A c \in ResolvableOf(bundle, bundle.sources[i]) :
                   TimesCited(bundle, SourceBlocks(tree)[i], c) = 1

---------------------------------------------------------------------------
(* C21: the skeleton invariant.  For every bundle the root carries, in     *)
(* this fixed order, the file identifier, language, character set,         *)
(* hierarchy level, contact, date stamp, reference system, identification, *)
(* distribution and data-quality blocks; the title and abstract containers *)
(* are always there, with empty text when the value is null.  For a        *)
(* minimal bundle (no group, no citation, no attributes, keywords or       *)
(* sources, a main record with no optional field) there is no purpose,     *)
(* status, keyword, constraint, extent, lineage-source or extension block. *)

Skeleton ==
    <<"gmd:fileIdentifier", "gmd:language", "gmd:characterSet", "gmd:hierarchyLevel",
      "gmd:contact", "gmd:dateStamp", "gmd:referenceSystemInfo", "gmd:identificationInfo",
      "gmd:distributionInfo", "gmd:dataQualityInfo">>

\* the columns of the main record the builder reads besides title and abstract
OptionalMainColumns ==
    {"supplemental_information", "status_progress", "metadata_facing",
     "west_bounding_coordinate", "east_bounding_coordinate", "south_bounding_coordinate",
     "north_bounding_coordinate", "temporal_date_from", "temporal_date_to"}

IsMinimal(b) ==
    /\ b.group = NoRow
    /\ b.citation = NoRow
    /\ b.attributes = << >>
    /\ b.keywords = << >>
    /\ b.sources = << >>
    /\ \A column \in OptionalMainColumns : IsNone(Get(b.main, column))

\* the text a null or a string value leaves in its container
TextOfValue(value) == IF IsNone(value) THEN NoText ELSE value.text

C21_SkeletonInvariant ==
    Built =>
        /\ Len(Tags(tree)) >= Len(Skeleton)
        /\ SubSeq(Tags(tree), 1, Len(Skeleton)) = Skeleton
        /\ \A i \in DOMAIN Tags(tree) :
               i > Len(Skeleton) => Tags(tree)[i] = "gmd:metadataExtensionInfo"
        /\ Len(Children(Find(Identification(tree), <<"gmd:citation", "gmd:CI_Citation">>),
                        "gmd:title")) = 1
        /\ StringIn(Find(Identification(tree),
                         <<"gmd:citation", "gmd:CI_Citation", "gmd:title">>))
               = TextOfValue(Get(bundle.main, "title"))
        /\ Len(Children(Identification(tree), "gmd:abstract")) = 1
        /\ StringIn(Find(Identification(tree), <<"gmd:abstract">>))
               = TextOfValue(Get(bundle.main, "abstract"))
        /\ IsMinimal(bundle) =>
               /\ Tags(tree) = Skeleton
               /\ Tags(Identification(tree)) = <<"gmd:citation", "gmd:abstract">>
               /\ SourceBlocks(tree) = << >>

\* a minimal bundle with a null title: the bare skeleton, the title container empty
C21_Witness ==
    /\ Built
    /\ IsMinimal(bundle)
    /\ IsNone(Get(bundle.main, "title"))
    /\ IsNone(Get(bundle.main, "abstract"))
    /\ Tags(tree) = Skeleton
    /\ StringIn(Find(Identification(tree),
                     <<"gmd:citation", "gmd:CI_Citation", "gmd:title">>)) = NoText
    /\ Tags(Identification(tree)) = <<"gmd:citation", "gmd:abstract">>

---------------------------------------------------------------------------
(* C22: the status omission law.  If main.status_progress is blank (null,  *)
(* empty or only whitespace) no status element appears in the              *)
(* identification block; otherwise exactly one status element appears,     *)
(* whose text and code-list value both equal the status value.             *)

\* null, the empty string or blanks only
IsBlank(value) == IsNone(value) \/ strip(value.text) = NoText

StatusElements(t) == Children(Identification(t), "gmd:status")

C22_StatusOmissionLaw ==
    Built =>
        LET status_value == Get(bundle.main, "status_progress")
        IN  IF IsBlank(status_value)
            THEN StatusElements(tree) = << >>
            ELSE /\ Len(StatusElements(tree)) = 1
                 /\ Tags(StatusElements(tree)[1]) = <<"gmd:MD_ProgressCode">>
                 /\ StatusElements(tree)[1].children[1].text = status_value.text
                 /\ StatusElements(tree)[1].children[1].codeListValue = status_value.text

---------------------------------------------------------------------------
(* C25: the extent and temporal rule as implemented.  The whole extent     *)
(* block, its temporal sub-block included, is emitted only when at least   *)
(* one bounding coordinate is non-null: a record with temporal dates but   *)
(* four null coordinates has no temporal sub-block.  When the extent block *)
(* is emitted, the temporal sub-block appears exactly when at least one    *)
(* normalised from/to date is present, and its begin and end children are  *)
(* each present exactly when their own date is present.                    *)

\* the date formatting rule leaves a text for the value
DatePresent(value) ==
    /\ ~IsNone(value)
    /\ value.type \in {"date", "datetime"} \/ strip(str(value)) # NoText

\* the EX_Extent element of a tree; NoRow when there is none
Extent(t) == Find(Identification(t), <<"gmd:extent", "gmd:EX_Extent">>)

C25_ExtentAndTemporalRule ==
    Built =>
        LET from == Get(bundle.main, "temporal_date_from")
            to == Get(bundle.main, "temporal_date_to")
        IN  IF \A i \in DOMAIN CoordinateColumns :
                    IsNone(Get(bundle.main, CoordinateColumns[i][2]))
            THEN Children(Identification(tree), "gmd:extent") = << >>
            ELSE /\ Len(Children(Identification(tree), "gmd:extent")) = 1
                 /\ Tags(Extent(tree))
                        = <<"gmd:geographicElement">>
                          \o (IF DatePresent(from) \/ DatePresent(to)
                              THEN <<"gmd:temporalElement">> ELSE << >>)
                 /\ DatePresent(from) \/ DatePresent(to) =>
                        Tags(Find(Extent(tree), <<"gmd:temporalElement",
                                                  "gmd:EX_TemporalExtent", "gml:TimePeriod">>))
                            = (IF DatePresent(from) THEN <<"gml:beginPosition">> ELSE << >>)
                              \o (IF DatePresent(to) THEN <<"gml:endPosition">> ELSE << >>)

\* temporal dates with four null coordinates: no extent, so no temporal sub-block
C25_Witness ==
    /\ Built
    /\ \A i \in DOMAIN CoordinateColumns : IsNone(Get(bundle.main, CoordinateColumns[i][2]))
    /\ DatePresent(Get(bundle.main, "temporal_date_from"))
    /\ DatePresent(Get(bundle.main, "temporal_date_to"))
    /\ Children(Identification(tree), "gmd:extent") = << >>

---------------------------------------------------------------------------
(* C26: in each lineage source block the scale sub-block is emitted only   *)
(* when the source name is present, and whenever the source name is        *)
(* present it is emitted even if the scale value itself is empty; a scale  *)
(* value alone never causes a scale sub-block.  The description is emitted *)
(* exactly when the contribution text is present.                          *)

\* the LI_Source element of the i-th source block of a tree
LISource(t, i) == Find(SourceBlocks(t)[i], <<"gmd:LI_Source">>)

C26_SourceScaleFollowsSourceName ==
    Built =>
        \A i \in DOMAIN bundle.sources :
            LET source == bundle.sources[i]
                scales == Children(LISource(tree, i), "gmd:sourceScale")
                descriptions == Children(LISource(tree, i), "gmd:description")
            IN  /\ Len(scales) = (IF NonEmpty(Get(source, "source_name")) THEN 1 ELSE 0)
                /\ NonEmpty(Get(source, "source_name")) =>
                       StringIn(Find(scales[1], <<"gmd:MD_RepresentativeFraction",
                                                  "gmd:denominator">>))
                           = TextOfValue(Get(source, "source_scale"))
                /\ Len(descriptions)
                       = (IF NonEmpty(Get(source, "source_contribution")) THEN 1 ELSE 0)
                /\ NonEmpty(Get(source, "source_contribution")) =>
                       StringIn(descriptions[1]) = Get(source, "source_contribution").text

\* a named source with no scale value: a scale sub-block with an empty denominator
C26_Witness ==
    /\ Built
    /\ Len(bundle.sources) = 1
    /\ NonEmpty(Get(bundle.sources[1], "source_name"))
    /\ IsNone(Get(bundle.sources[1], "source_scale"))
    /\ NonEmpty(Get(bundle.sources[1], "source_contribution"))
    /\ Tags(LISource(tree, 1)) = <<"gmd:description", "gmd:sourceScale">>
    /\ StringIn(Find(LISource(tree, 1), <<"gmd:sourceScale", "gmd:MD_RepresentativeFraction",
                                          "gmd:denominator">>)) = NoText

---------------------------------------------------------------------------
(* C27: keywords whose type is the empty string form a keyword block of    *)
(* their own, emitted with its keyword children but with no type           *)
(* classification element; null and whitespace-only types fall into the    *)
(* same block.  Every block for a non-empty type carries exactly one type  *)
(* element, whose text and code-list value equal the trimmed type.         *)

\* the texts of the keywords of trimmed type T, in input order
KeywordsOfType(keywords, T) ==
    LET of == SelectSeq(keywords, LAMBDA keyword : TrimmedType(keyword) = T)
    IN  [k \in DOMAIN of |-> of[k].keyword.text]

\* the type elements of a keyword block
TypesIn(block) == Children(Find(block, <<"gmd:MD_Keywords">>), "gmd:type")

\* the blocks of a tree that carry no type element
UntypedBlocks(t) == SelectSeq(KeywordBlocks(t), LAMBDA block : TypesIn(block) = << >>)

C27_EmptyTypeIsABlockOfItsOwn ==
    Built =>
        LET keywords == bundle.keywords
            types == {TrimmedType(keywords[i]) : i \in DOMAIN keywords}
        IN  /\ IF NoText \in types
               THEN /\ Len(UntypedBlocks(tree)) = 1
                    /\ ListedIn(UntypedBlocks(tree)[1]) = KeywordsOfType(keywords, NoText)
                    /\ ListedIn(UntypedBlocks(tree)[1]) # << >>
               ELSE UntypedBlocks(tree) = << >>
            /\ \A T \in types \ {NoText} :
                   \E g \in DOMAIN KeywordBlocks(tree) :
                       /\ ListedIn(KeywordBlocks(tree)[g]) = KeywordsOfType(keywords, T)
                       /\ Len(TypesIn(KeywordBlocks(tree)[g])) = 1
                       /\ Tags(TypesIn(KeywordBlocks(tree)[g])[1]) = <<"gmd:MD_KeywordTypeCode">>
                       /\ TypesIn(KeywordBlocks(tree)[g])[1].children[1].text = T
                       /\ TypesIn(KeywordBlocks(tree)[g])[1].children[1].codeListValue = T
            /\ \A g \in DOMAIN KeywordBlocks(tree) :
                   /\ Len(TypesIn(KeywordBlocks(tree)[g])) <= 1
                   /\ TypesIn(KeywordBlocks(tree)[g]) # << >> =>
                          TypesIn(KeywordBlocks(tree)[g])[1].children[1].text
                              \in types \ {NoText}

\* a null, a typed and a blank type: the untyped block holds the first and the third
C27_Witness ==
    /\ Built
    /\ Len(bundle.keywords) = 3
    /\ RawType(bundle.keywords[1]) = None
    /\ RawType(bundle.keywords[2]) = Str(<<" ", "theme">>)
    /\ RawType(bundle.keywords[3]) = Str(<<" ">>)
    /\ Len(KeywordBlocks(tree)) = 2
    /\ TypesIn(KeywordBlocks(tree)[1]) = << >>
    /\ Len(ListedIn(KeywordBlocks(tree)[1])) = 2
    /\ TypesIn(KeywordBlocks(tree)[2])[1].children[1].text = <<"theme">>

---------------------------------------------------------------------------
(* C28: the extension info block is emitted only if attributes is          *)
(* non-empty, with one entry per attribute in bundle order.  Each entry's  *)
(* description is the parts width=, precision=, scale= that are non-null,  *)
(* in that order, joined with "; "; the description element is omitted     *)
(* entirely when none of the three is present.                             *)

\* the entries of the extension info block of a tree, in document order
ExtensionEntries(t) ==
    IF Children(t, "gmd:metadataExtensionInfo") = << >> THEN << >>
    ELSE Children(Find(t, <<"gmd:metadataExtensionInfo",
                            "gmd:MD_MetadataExtensionInformation">>),
                  "gmd:extendedElementInformation")

\* the parts of the description the rule asks for, in its order
DetailParts(attribute) ==
    LET columns == <<<<"width=", "attribute_width">>, <<"precision=", "attribute_precision">>,
                     <<"scale=", "attribute_scale">>>>
        given == SelectSeq(columns, LAMBDA column : ~IsNone(Get(attribute, column[2])))
    IN  [k \in DOMAIN given |-> <<given[k][1]>> \o Get(attribute, given[k][2]).text]

C28_ExtensionInfo ==
    Built =>
        /\ Len(Children(tree, "gmd:metadataExtensionInfo"))
               = (IF bundle.attributes = << >> THEN 0 ELSE 1)
        /\ Len(ExtensionEntries(tree)) = Len(bundle.attributes)
        /\ \A i \in DOMAIN bundle.attributes :
               LET descriptions == Children(ExtensionEntries(tree)[i], "gmd:description")
               IN  /\ StringIn(Find(ExtensionEntries(tree)[i], <<"gmd:name">>))
                          = bundle.attributes[i].attribute_name.text
                   /\ IF DetailParts(bundle.attributes[i]) = << >>
                      THEN descriptions = << >>
                      ELSE /\ Len(descriptions) = 1
                           /\ StringIn(descriptions[1]) = Join(DetailParts(bundle.attributes[i]))

\* two attributes: width 0 with scale 0, then nothing: one description, out of two entries
C28_Witness ==
    /\ Built
    /\ Len(bundle.attributes) = 2
    /\ Get(bundle.attributes[1], "attribute_width") = Num(<<"0">>)
    /\ IsNone(Get(bundle.attributes[1], "attribute_precision"))
    /\ Get(bundle.attributes[1], "attribute_scale") = Num(<<"0">>)
    /\ DetailParts(bundle.attributes[2]) = << >>
    /\ Len(ExtensionEntries(tree)) = 2
    /\ StringIn(Children(ExtensionEntries(tree)[1], "gmd:description")[1])
           = <<"width=", "0", ";", " ", "scale=", "0">>
    /\ Children(ExtensionEntries(tree)[2], "gmd:description") = << >>

---------------------------------------------------------------------------
(* C29: the data-quality block is emitted for every bundle, with a         *)
(* dataset-level scope; its conformance pass flag is true for every input, *)
(* and its explanation text is group.attribute_accuracy_report when the    *)
(* group is present with a non-empty report and the fixed default sentence *)
(* otherwise.  The distribution block is likewise always emitted, with the *)
(* format name "Unknown" when no citation data form is known.              *)

DefaultExplanation ==
    <<"No", " ", "attribute", " ", "accuracy", " ", "report", " ", "supplied.">>

\* the DQ_DataQuality element of a tree
DataQuality(t) == Find(t, <<"gmd:dataQualityInfo", "gmd:DQ_DataQuality">>)

\* the DQ_ConformanceResult element of a tree
Conformance(t) ==
    Find(DataQuality(t), <<"gmd:report", "gmd:DQ_DomainConsistency", "gmd:result",
                           "gmd:DQ_ConformanceResult">>)

\* the MD_Format element of a tree
Format(t) ==
    Find(t, <<"gmd:distributionInfo", "gmd:MD_Distribution", "gmd:distributionFormat",
              "gmd:MD_Format">>)

C29_DataQualityAndDistributionAlways ==
    Built =>
        LET report == IF bundle.group = NoRow THEN None
                      ELSE Get(bundle.group, "attribute_accuracy_report")
            form == IF bundle.citation = NoRow THEN None
                    ELSE Get(bundle.citation, "citation_data_form")
            scope_code == Find(DataQuality(tree), <<"gmd:scope", "gmd:DQ_Scope", "gmd:level",
                                                    "gmd:MD_ScopeCode">>)
        IN  /\ Len(Children(tree, "gmd:dataQualityInfo")) = 1
            /\ scope_code # NoRow
            /\ scope_code.text = <<"dataset">>
            /\ scope_code.codeListValue = <<"dataset">>
            /\ Find(Conformance(tree), <<"gmd:pass", "gco:Boolean">>).text = <<"true">>
            /\ StringIn(Find(Conformance(tree), <<"gmd:explanation">>))
                   = (IF NonEmpty(report) THEN report.text ELSE DefaultExplanation)
            /\ Len(Children(tree, "gmd:distributionInfo")) = 1
            /\ StringIn(Find(Format(tree), <<"gmd:name">>))
                   = (IF NonEmpty(form) THEN form.text ELSE <<"Unknown">>)

\* a group with an empty report and a citation with a null data form
C29_Witness ==
    /\ Built
    /\ bundle.group # NoRow
    /\ Get(bundle.group, "attribute_accuracy_report") = Str(NoText)
    /\ bundle.citation # NoRow
    /\ IsNone(Get(bundle.citation, "citation_data_form"))
    /\ StringIn(Find(Conformance(tree), <<"gmd:explanation">>)) = DefaultExplanation
    /\ StringIn(Find(Format(tree), <<"gmd:name">>)) = <<"Unknown">>

---------------------------------------------------------------------------
(* C23: quote normalisation is the identity on ASCII input.  For every     *)
(* string s of ASCII characters only, the standard ASCII quote characters  *)
(* included, normalise_quotes(s) = s.                                      *)

\* every character of the text is below U+0080
IsASCII(text) == \A i \in DOMAIN text : text[i] < 128

\* a quote run has called normalise_quotes at least once
Normalised == pc = "quotes" /\ Len(normalised) >= 2

C23_IdentityOnASCII ==
    Normalised /\ IsASCII(raw_text) => normalised[2] = raw_text

---------------------------------------------------------------------------
(* C24: normalise_quotes replaces every curly or smart single-quote glyph  *)
(* by ASCII ' and every curly or smart double-quote glyph by ASCII ",      *)
(* position by position: the result is as long as the input, every         *)
(* character outside the normalisation map is unchanged, the result holds  *)
(* no glyph of the map, and so normalising twice is normalising once.      *)

\* the single quotation marks, primes and apostrophes of Unicode among the
\* glyphs: U+2018-201B, U+2032, U+2035, U+00B4, U+02BB, U+02BC, U+275B,
\* U+275C, U+275F
SingleQuoteGlyphs ==
    {8216, 8217, 8218, 8219, 8242, 8245, 180, 699, 700, 10075, 10076, 10079}

\* the double quotation marks and double primes of Unicode among the glyphs:
\* U+201C-201F, U+2033, U+2036, U+00AB, U+00BB, U+02DD, U+275D, U+275E,
\* U+2760, U+301D-301F
DoubleQuoteGlyphs ==
    {8220, 8221, 8222, 8223, 8243, 8246, 171, 187, 733, 10077, 10078, 10080,
     12317, 12318, 12319}

C24_GlyphsBecomeASCIIQuotes ==
    Normalised =>
        /\ Len(normalised[2]) = Len(raw_text)
        /\ \A i \in DOMAIN raw_text :
               /\ raw_text[i] \in SingleQuoteGlyphs => normalised[2][i] = Apostrophe
               /\ raw_text[i] \in DoubleQuoteGlyphs => normalised[2][i] = QuotationMark
               /\ raw_text[i] \notin DOMAIN _NORMALISATION_MAP =>
                      normalised[2][i] = raw_text[i]
               /\ normalised[2][i] \notin DOMAIN _NORMALISATION_MAP
        /\ Len(normalised) >= 3 => normalised[3] = normalised[2]


---------------------------------------------------------------------------
(* C30: the transaction protocol of a cleanup run                          *)

\* the entries of a session log that are the given statement or call
StatementsOf(log, op) == SelectSeq(log, LAMBDA entry : entry.op = op)

\* the columns the targets of the run name
TargetColumns == {cleanup_config.targets[i].column : i \in DOMAIN cleanup_config.targets}

\* the cells of the target columns whose text normalise_quotes would change
NeedsNormalising(database) ==
    {cell \in TargetColumns \X (1..MaxRows) :
        LET stored == database[cell[1]][cell[2]]
        IN  ~IsNone(stored) /\ normalise_quotes(str(stored)) # str(stored)}

\* the cells the UPDATE statements of a session log were executed on
UpdatedCells(log) ==
    {<<log[i].column, log[i].rowid>> : i \in {j \in DOMAIN log : log[j].op = "UPDATE"}}

\* without --commit: no UPDATE, no commit; a run that returns ended with a rollback and 0
DryRunProtocol ==
    dry_run =>
        /\ StatementsOf(session, "UPDATE") = << >>
        /\ StatementsOf(session, "COMMIT") = << >>
        /\ pc = "returned" =>
              /\ session[Len(session)].op = "ROLLBACK"
              /\ returned_total = 0

\* a commit is the last call of a --commit run that went through every target
CommitOnlyAfterEveryTarget ==
    \A i \in DOMAIN session :
        session[i].op = "COMMIT" =>
            /\ i = Len(session)
            /\ ~dry_run
            /\ pc = "returned"
            /\ Len(StatementsOf(session, "SELECT")) = Len(cleanup_config.targets)

\* a run that raised has committed nothing
NothingCommittedByAFailedRun ==
    pc = "raised" => StatementsOf(session, "COMMIT") = << >>

\* the step that ends a --commit run: one UPDATE was executed for each cell that
\* needed normalising and for no other, then exactly one commit
CommitProtocol ==
    (pc = "target" /\ pc' = "returned" /\ ~dry_run) =>
        /\ UpdatedCells(session') = NeedsNormalising(committed)
        /\ Len(StatementsOf(session', "UPDATE")) = Cardinality(NeedsNormalising(committed))
        /\ Len(StatementsOf(session', "COMMIT")) = 1
        /\ returned_total' = Cardinality(NeedsNormalising(committed))
        /\ NeedsNormalising(committed') = {}

\* the database changes at no other step than the return of a --commit run
CommittedOnlyAtTheEnd ==
    committed' # committed => (pc' = "returned" /\ ~dry_run)

\* C30: a cleanup run without --commit executes no UPDATE, never commits and, when it
\* returns, has ended with a rollback and returns 0; a run with --commit executes one
\* UPDATE per cell whose normalised text differs from the stored text (none for a NULL
\* or an already normalised cell) and commits exactly once, after every target has been
\* processed, so that a run that fails at any target leaves the database as it was.
C30_CleanupTransactionProtocol ==
    /\ [](DryRunProtocol /\ CommitOnlyAfterEveryTarget /\ NothingCommittedByAFailedRun)
    /\ [][CommitProtocol /\ CommittedOnlyAtTheEnd]_vars

\* a --commit run over two targets has returned after two UPDATEs and one commit,
\* having left a NULL cell and an already normalised cell alone
C30_Witness ==
    /\ pc = "returned"
    /\ ~dry_run
    /\ Len(cleanup_config.targets) = 2
    /\ Len(StatementsOf(session, "UPDATE")) = 2
    /\ session[Len(session)].op = "COMMIT"
    /\ returned_total = 2
    /\ \E cell \in TargetColumns \X (1..MaxRows) : IsNone(committed[cell[1]][cell[2]])
    /\ \E cell \in TargetColumns \X (1..MaxRows) :
          /\ committed[cell[1]][cell[2]] = Str(<<Apostrophe, 97>>)
          /\ cell \notin UpdatedCells(session)

===========================================================================
